---- MODULE Spec2Model ----
(***************************************************************************)
(* A model of simphox: the Yee grid (grid.py), the FDFD operator builder   *)
(* and solver dispatch (fdfd.py) and the mode results / sweeps (device.py).*)
(*                                                                         *)
(* Conventions                                                             *)
(*  - an array is the function 1..n -> value of its cells in C order; the  *)
(*    eps arrays, the only arrays that are shared and mutated in place,    *)
(*    live in `heap` and are held by reference;                            *)
(*  - a real number that the code obtains by dividing is kept as the       *)
(*    fraction <<num, den>> the code computes, unreduced;                  *)
(*  - a complex number is the Gaussian integer <<re, im>>;                 *)
(*  - the sparse solvers and eigensolvers are external: what they return   *)
(*    is an input of the action, what they are called with is recorded.    *)
(***************************************************************************)
EXTENDS Integers, Sequences, FiniteSets, TLC

VARIABLES
    fdfd,         \* the live FDFD object: shape, ndim, yee_avg, dtype, wavelength, eps (a heap reference)
    heap,         \* reference -> eps array contents (numpy arrays held by reference)
    eps_t_cache,  \* the lru_cache of SimGrid.eps_t for the live object: <<>> or <<value>>
    ret,          \* outcome of the last call: a value or a raised error
    last_call,    \* the call whose outcome `ret` holds: its name and arguments
    calls,        \* the external solver calls and the cached-method bodies run by the last call, in order
    solutions,    \* the Modes objects built so far (the sweep's `solutions` list)
    built_from,   \* history: for each Modes of `solutions`, what it was built from (grid state, operator solved)
    sweep,        \* position of a running sweep loop of device.py
    method_cache, \* the lru_caches of Modes.h, Modes.e and Modes.sz: the keys that hold a result
    mkl           \* the import of .mkl succeeded: spsolve_pardiso and feast_eigs are bound (fdfd.py:23-26)

vars == <<fdfd, heap, eps_t_cache, ret, last_call, calls, solutions, built_from, sweep, method_cache, mkl>>

(***************************************************************************)
(* Bounds of the model                                                     *)
(***************************************************************************)
MaxModes == 1       \* Modes objects kept outside a sweep
MaxSweep == 2       \* points of one sweep (separations of dc_grid)
MaxNumModes == 2    \* num_modes requested of the eigensolver

EpsValues == {1, 2}        \* relative permittivities painted on the grid
Wavelengths == {1, 2}      \* wavelengths, in grid units
Shapes == {<<3>>, <<2, 2>>, <<2, 1, 2>>}   \* one grid per dimensionality

None == [kind |-> "None"]

(***************************************************************************)
(* Grid geometry (Grid.__init__)                                           *)
(***************************************************************************)
RECURSIVE Prod(_)
Prod(s) == IF s = <<>> THEN 1 ELSE Head(s) * Prod(Tail(s))

\* grid.py:29  shape3 = hstack((shape, ones(3 - ndim)))
shape3(shape) == [ax \in 1..3 |-> IF ax <= Len(shape) THEN shape[ax] ELSE 1]

\* grid.py:34  n = prod(shape)
CellCount(shape) == Prod(shape)

\* C-order position of the cell (c[1], c[2], c[3]) (0-based coordinates) in a
\* flattened array of shape s3, 1-based
Idx(s3, c) == (c[1] * s3[2] + c[2]) * s3[3] + c[3] + 1

Coord(s3, i) ==
    <<(i - 1) \div (s3[2] * s3[3]), ((i - 1) \div s3[3]) % s3[2], (i - 1) % s3[3]>>

\* np.roll(a, shift, axis) on a flattened array of shape s3: out[c] = a[c - shift along axis]
Roll(a, s3, shift, axis) ==
    [i \in 1..Prod(s3) |->
        LET c == Coord(s3, i)
            d == [c EXCEPT ![axis + 1] = (c[axis + 1] - shift) % s3[axis + 1]]
        IN  a[Idx(s3, d)]]

\* Grid.__init__ with a scalar eps: np.ones(shape) * eps
Uniform(shape, e) == [i \in 1..CellCount(shape) |-> e]

(***************************************************************************)
(* Yee averaging (utils.yee_avg) and the cached property SimGrid.eps_t     *)
(***************************************************************************)
Frac(num, den) == <<num, den>>

yee_avg(params, shape, shift) ==
    LET s3 == shape3(shape)
        n  == CellCount(shape)
    IN  IF Len(shape) = 1
        THEN LET p == [i \in 1..n |->
                        Frac(params[i] + Roll(params, s3, shift, 0)[i]
                                       + Roll(params, s3, 0 - shift, 0)[i], 3)]
             IN  <<p, p, p>>
        ELSE LET rx   == Roll(params, s3, shift, 1)
                 ry   == Roll(params, s3, shift, 0)
                 ynum == [i \in 1..n |-> params[i] + ry[i]]
                 ryn  == Roll(ynum, s3, shift, 1)
                 p_x  == [i \in 1..n |-> Frac(params[i] + rx[i], 2)]
                 p_y  == [i \in 1..n |-> Frac(ynum[i], 2)]
                 p_z  == [i \in 1..n |-> Frac(ynum[i] + ryn[i], 2 * 2)]
             IN  <<p_x, p_y, p_z>>

\* the body of eps_t (grid.py:265), evaluated on an eps array
EpsTOf(eps, shape, yavg) ==
    IF yavg > 0 THEN yee_avg(eps, shape, yavg)
    ELSE LET e == [i \in 1..CellCount(shape) |-> Frac(eps[i], 1)] IN <<e, e, e>>

\* @property @lru_cache() eps_t: the cache is keyed by the object alone, so a
\* stored value is returned whatever eps has become
eps_t(g, h, cache) ==
    IF cache # <<>> THEN cache[1] ELSE EpsTOf(h[g.eps], g.shape, g.yee_avg)

\* the cache after a read of eps_t
CacheAfterRead(g, h, cache) == <<eps_t(g, h, cache)>>

(***************************************************************************)
(* Construction (SimGrid.__init__, FDFD.__init__)                          *)
(***************************************************************************)
\* grid.py:177  dtype = float64 if pml is None and bloch_phase == 0 else complex128
DtypeOf(pml, bloch_phase) ==
    IF pml = "None" /\ bloch_phase = 0 THEN "float64" ELSE "complex128"

\* the FDFD object after FDFD(shape, spacing, wavelength, eps=<array ref>, bloch_phase, yee_avg)
\* (spacing = 1.0)
NewFDFD(shape, w, ref, bloch_phase, yavg) ==
    [shape |-> shape, ndim |-> Len(shape), n |-> CellCount(shape),
     spacing |-> [ax \in 1..Len(shape) |-> Frac(1, 1)],
     yee_avg |-> yavg, pml_shape |-> "None", bloch_phase |-> bloch_phase,
     dtype |-> DtypeOf("None", bloch_phase), wavelength |-> w, eps |-> ref]

(***************************************************************************)
(* References: numpy arrays are shared by reference and freed when the     *)
(* last reference goes                                                     *)
(***************************************************************************)

\* the arrays still referenced by the grid or by a Modes object are kept
Collect(h, g, sols) ==
    [r \in (DOMAIN h) \cap ({g.eps} \cup {sols[i].eps : i \in DOMAIN sols}
                                      \cup {sols[i].fdfd.eps : i \in DOMAIN sols}) |-> h[r]]

NewRef(h) == CHOOSE r \in 1..(Cardinality(DOMAIN h) + 1) : r \notin DOMAIN h

Store(h, r, a) == [x \in (DOMAIN h) \cup {r} |-> IF x = r THEN a ELSE h[x]]

(***************************************************************************)
(* Operators of the FDFD (fdfd.py:105-163). An operator is recorded by     *)
(* what it is assembled from: k0 and the components of eps_t on its        *)
(* diagonal blocks.                                                        *)
(***************************************************************************)
\* k0 stored at a wavelength of 1 and not following the assignments
k0Stored(g) == Frac(2, 1)

\* fdfd.py:107  k0 = 2 * pi / wavelength, kept as the fraction 2/wavelength of pi
k0(g) == Frac(2, g.wavelength)

Error(type, msg) == [kind |-> "error", type |-> type, msg |-> msg]

\* fdfd.py:116  curl_curl - k0 ** 2 * diags(eps_t.flatten())
mat(g, et) ==
    [kind |-> "operator", op |-> "mat", size |-> 3 * g.n, k0 |-> k0(g),
     eps |-> et[1] \o et[2] \o et[3], eps_t |-> et]

\* fdfd.py:128  ddz - k0 ** 2 * diags(eps_t[2].flatten())
matz(g, et) ==
    [kind |-> "operator", op |-> "matz", size |-> g.n, k0 |-> k0(g),
     eps |-> et[3], eps_t |-> et]

\* mutant of WgmRaises: the dimension test off by one
WgmRaisesOffByOne(g) == ~(g.ndim <= 3)

\* fdfd.py:148-161: raises on a 3-d grid before eps_t is read
WgmRaises(g) == ~(g.ndim <= 2)

wgm(g, et) ==
    IF WgmRaises(g) THEN Error("AttributeError", "Grid dimension must be 1 or 2")
    ELSE IF g.ndim = 2
    THEN [kind |-> "operator", op |-> "wgm", size |-> 2 * g.n, k0 |-> k0(g),
          eps |-> et[2] \o et[1] \o et[3], eps_t |-> et]
    ELSE [kind |-> "operator", op |-> "wgm", size |-> g.n, k0 |-> k0(g),
          eps |-> et[1], eps_t |-> et]

(***************************************************************************)
(* The live grid: assignments, in-place painting, property reads. A        *)
(* setter or fill returns nothing: no outcome is held after it.            *)
(***************************************************************************)
Call(name, args) == [name |-> name, args |-> args]

Idle == sweep = None

\* Grid.fill (grid.py:106): eps[..., :k] = e, in place, k = int(zmax / spacing[-1])
Fill(k, e) ==
    /\ Idle
    /\ heap' = [heap EXCEPT ![fdfd.eps] =
                    [i \in 1..CellCount(fdfd.shape) |->
                        IF Coord(shape3(fdfd.shape), i)[Len(fdfd.shape)] < k
                        THEN e ELSE heap[fdfd.eps][i]]]
    /\ heap' # heap
    /\ ret' = None
    /\ last_call' = Call("None", <<>>)
    /\ calls' = <<>>
    /\ UNCHANGED <<fdfd, eps_t_cache, solutions, built_from, sweep, method_cache, mkl>>

\* fdfd.eps = eps (device.py:258): the attribute is rebound to the caller's array
AssignEps(g, h, sols, a) ==
    LET r == NewRef(h)
        g2 == [g EXCEPT !.eps = r]
    IN  [fdfd |-> g2, heap |-> Collect(Store(h, r, a), g2, sols)]

SetEps(e) ==
    /\ Idle
    /\ LET x == AssignEps(fdfd, heap, solutions, Uniform(fdfd.shape, e))
       IN  fdfd' = x.fdfd /\ heap' = x.heap
    /\ ret' = None
    /\ last_call' = Call("None", <<>>)
    /\ calls' = <<>>
    /\ UNCHANGED <<eps_t_cache, solutions, built_from, sweep, method_cache, mkl>>

\* fdfd.wavelength = lmbda (device.py:395)
SetWavelength(w) ==
    /\ Idle
    /\ w # fdfd.wavelength
    /\ fdfd' = [fdfd EXCEPT !.wavelength = w]
    /\ ret' = None
    /\ last_call' = Call("None", <<>>)
    /\ calls' = <<>>
    /\ UNCHANGED <<heap, eps_t_cache, solutions, built_from, sweep, method_cache, mkl>>

\* a read of the property eps_t
ReadEpsT ==
    /\ Idle
    /\ ret' = [kind |-> "eps_t", eps_t |-> eps_t(fdfd, heap, eps_t_cache)]
    /\ eps_t_cache' = CacheAfterRead(fdfd, heap, eps_t_cache)
    /\ last_call' = Call("eps_t", <<>>)
    /\ calls' = <<>>
    /\ UNCHANGED <<fdfd, heap, solutions, built_from, sweep, method_cache, mkl>>

\* a read of the property mat
ReadMat ==
    /\ Idle
    /\ ret' = mat(fdfd, eps_t(fdfd, heap, eps_t_cache))
    /\ eps_t_cache' = CacheAfterRead(fdfd, heap, eps_t_cache)
    /\ last_call' = Call("mat", <<>>)
    /\ calls' = <<>>
    /\ UNCHANGED <<fdfd, heap, solutions, built_from, sweep, method_cache, mkl>>

\* a read of the property matz
ReadMatz ==
    /\ Idle
    /\ ret' = matz(fdfd, eps_t(fdfd, heap, eps_t_cache))
    /\ eps_t_cache' = CacheAfterRead(fdfd, heap, eps_t_cache)
    /\ last_call' = Call("matz", <<>>)
    /\ calls' = <<>>
    /\ UNCHANGED <<fdfd, heap, solutions, built_from, sweep, method_cache, mkl>>

\* a read of the property wgm
ReadWgm ==
    /\ Idle
    /\ ret' = wgm(fdfd, eps_t(fdfd, heap, eps_t_cache))
    /\ eps_t_cache' = IF WgmRaises(fdfd) THEN eps_t_cache
                      ELSE CacheAfterRead(fdfd, heap, eps_t_cache)
    /\ last_call' = Call("wgm", <<>>)
    /\ calls' = <<>>
    /\ UNCHANGED <<fdfd, heap, solutions, built_from, sweep, method_cache, mkl>>

GridInit(shape, w, e, bloch_phase, yavg) ==
    /\ fdfd = NewFDFD(shape, w, 1, bloch_phase, yavg)
    /\ heap = [r \in {1} |-> Uniform(shape, e)]
    /\ eps_t_cache = <<>>
    /\ ret = None
    /\ last_call = Call("None", <<>>)
    /\ calls = <<>>
    /\ solutions = <<>>
    /\ built_from = <<>>
    /\ sweep = None
    /\ method_cache = {}
    /\ mkl = TRUE

Init ==
    \E shape \in Shapes, w \in Wavelengths, e \in EpsValues, yavg \in {0, 1} :
        GridInit(shape, w, e, 0, yavg)

Next ==
    \/ \E e \in EpsValues : \E k \in 0..fdfd.shape[fdfd.ndim] : Fill(k, e)
    \/ \E e \in EpsValues : SetEps(e)
    \/ \E w \in Wavelengths : SetWavelength(w)
    \/ ReadEpsT
    \/ ReadMat
    \/ ReadMatz
    \/ ReadWgm

Spec == Init /\ [][Next]_vars

\* the Yee average (or replication) of the eps the live grid holds now
CurrentEpsT == EpsTOf(heap[fdfd.eps], fdfd.shape, fdfd.yee_avg)

\* C1: every read of eps_t, and every operator built from it (mat, matz,
\* wgm), uses the Yee average (or, with averaging off, the replication) of
\* the CURRENT eps, after any sequence of assignments and in-place changes.
C1_EpsTFollowsEps ==
    ret.kind \in {"eps_t", "operator"} => ret.eps_t = CurrentEpsT

(***************************************************************************)
(* Complex arithmetic on Gaussian integers                                 *)
(***************************************************************************)
Mul(a, b) == <<a[1] * b[1] - a[2] * b[2], a[1] * b[2] + a[2] * b[1]>>

Add(a, b) == <<a[1] + b[1], a[2] + b[2]>>

Neg(a) == <<0 - a[1], 0 - a[2]>>

Sgn(x) == IF x > 0 THEN 1 ELSE IF x < 0 THEN 0 - 1 ELSE 0

\* the propagation constants the eigenvalues are squares of: principal square
\* roots (real part > 0, or real part 0 and imaginary part >= 0)
PrincipalRoots == {<<2, 0>>, <<1, 0>>, <<0, 1>>, <<1, 2>>}

\* num_modes of dispersion_sweep (device.py:396)
DispersionNumModes == 6

\* np.exp(-1j * np.angle(z)) for z on an axis of the complex plane (angle 0,
\* pi/2, pi or -pi/2; np.angle(0) = 0)
PhaseFactor(z) ==
    CASE z[2] = 0 /\ z[1] >= 0 -> <<1, 0>>
      [] z[2] = 0 /\ z[1] < 0  -> <<0 - 1, 0>>
      [] z[1] = 0 /\ z[2] > 0  -> <<0, 0 - 1>>
      [] z[1] = 0 /\ z[2] < 0  -> <<0, 1>>

\* np.sign of a complex number (numpy 1.x, which np.int in grid.py requires):
\* the sign of the real part, or of the imaginary part when the real part is 0
SignFactor(z) == <<IF z[1] # 0 THEN Sgn(z[1]) ELSE Sgn(z[2]), 0>>

(***************************************************************************)
(* Derivative operators applied to a field (SimGrid.deriv, no PML, unit    *)
(* spacing)                                                                *)
(***************************************************************************)
\* grid.py:172  bloch = exp(1j * bloch_phase), for a phase of 0 or pi/2
BlochFactor(bloch_phase) == IF bloch_phase = 0 THEN <<1, 0>> ELSE <<0, 1>>

\* (df[ax] @ x)[i], grid.py:207-212: -x[i] + x[i + 1], the wrapped term times
\* the Bloch factor; the zero matrix on an axis of one cell
DfApply(g, ax, x) ==
    LET s3 == shape3(g.shape) IN
    [i \in 1..g.n |->
        IF s3[ax + 1] = 1 THEN <<0, 0>>
        ELSE LET c    == Coord(s3, i)
                 last == c[ax + 1] = s3[ax + 1] - 1
                 nxt  == [c EXCEPT ![ax + 1] = (c[ax + 1] + 1) % s3[ax + 1]]
                 xn   == x[Idx(s3, nxt)]
             IN  Add(Neg(x[i]), IF last THEN Mul(BlochFactor(g.bloch_phase), xn) ELSE xn)]

(***************************************************************************)
(* wgm_solve (fdfd.py:230-270)                                             *)
(***************************************************************************)
\* a field entry: num, or num / (1j * sqrt(den[1])) when den is not empty
Entry(num, den) == [num |-> num, den |-> den]

Perms(m) == {p \in [1..m -> 1..m] : \A i, j \in 1..m : p[i] = p[j] => i = j}

\* np.argsort of real keys: ascending, nan last; ties in any order
ArgSorts(keys) ==
    {p \in Perms(Len(keys)) :
        \A i, j \in 1..Len(keys) :
            i < j /\ ~keys[p[j]].nan => ~keys[p[i]].nan /\ keys[p[i]].sq <= keys[p[j]].sq}

\* fdfd.py:261
\* np.sqrt of a real number (fdfd.py:261, on eigvals.real): nan below zero,
\* else the root, kept as the number it is the root of
SortKeys(eigvals) ==
    [m \in 1..Len(eigvals) |-> [nan |-> eigvals[m][1] < 0, sq |-> eigvals[m][1]]]

\* fdfd.py:262-266: the columns of h
HColumn(g, lam, v) ==
    IF g.ndim > 1
    THEN LET hx == SubSeq(v, 1, g.n)
             hy == SubSeq(v, g.n + 1, 2 * g.n)
             d0 == DfApply(g, 0, hx)
             d1 == DfApply(g, 1, hy)
         IN  [i \in 1..(2 * g.n) |-> Entry(v[i], <<>>)]
             \o [i \in 1..g.n |-> Entry(Add(d0[i], d1[i]), <<lam>>)]
    ELSE [i \in 1..Len(v) |-> Entry(v[i], <<>>)]

\* mutant of Factor: the phase is added instead of removed, exp(+1j * angle)
FactorPlusAngle(g, col) ==
    IF g.dtype = "complex128"
    THEN LET f == PhaseFactor(col[1].num) IN <<f[1], 0 - f[2]>>
    ELSE SignFactor(col[1].num)

\* fdfd.py:268
Factor(g, col) ==
    IF g.dtype = "complex128" THEN PhaseFactor(col[1].num) ELSE SignFactor(col[1].num)

\* fdfd.py:269  h *= factor
Scaled(col, f) == [i \in 1..Len(col) |-> Entry(Mul(col[i].num, f), col[i].den)]

\* fdfd.py:261-270, given what the eigensolver returned and the argsort order
\* np.sqrt of a complex number: the principal root
\* the principal roots of the eigenvalues of a sweep: 1, 2, ...
WgmPost(g, eigvals, eigvecs, order) ==
    LET inds_sorted == [i \in 1..Len(order) |-> order[Len(order) + 1 - i]]
        h == [m \in 1..Len(eigvals) |->
                LET col == HColumn(g, eigvals[m], eigvecs[m]) IN Scaled(col, Factor(g, col))]
    IN  [kind  |-> "modes",
         betas |-> [k \in 1..Len(eigvals) |->
                      CHOOSE b \in PrincipalRoots \cup {<<m, 0>> : m \in 1..DispersionNumModes} :
                          Mul(b, b) = eigvals[inds_sorted[k]]],
         modes |-> [k \in 1..Len(eigvals) |-> h[inds_sorted[k]]],
         inds  |-> inds_sorted]

\* fdfd.py:253-260: the eigensolver chosen for a beta_guess, or the TypeError
SolverFor(beta_guess) ==
    IF beta_guess.type \in {"float", "NoneType"} THEN "eigs"
    ELSE IF beta_guess.type = "tuple" THEN "feast_eigs"
    ELSE "TypeError"

\* fdfd.py:254, 257: the shift or the interval given to the eigensolver
TargetFor(g, h, beta_guess) ==
    IF beta_guess.type = "tuple"
    THEN [erange |-> <<[sq |-> [beta |-> beta_guess.val[1]]], [sq |-> [beta |-> beta_guess.val[2]]]>>]
    ELSE IF beta_guess.type = "float" /\ beta_guess.val[1][1] # 0
    THEN [sigma |-> [sq |-> [beta |-> beta_guess.val[1]]]]
    ELSE [sigma |-> [sq |-> [k0 |-> k0(g),
                             sqrt_max_eps |-> CHOOSE e \in {h[g.eps][i] : i \in 1..g.n} :
                                                \A i \in 1..g.n : h[g.eps][i] <= e]]]

\* the outcome of wgm_solve before the eigensolver answers: an error, or the call made
WgmSolveCall(g, h, cache, num_modes, beta_guess) ==
    IF SolverFor(beta_guess) = "TypeError"
    THEN Error("TypeError", "Expected beta_guess to be None, float, or Tuple[float, float]")
    ELSE LET A == wgm(g, eps_t(g, h, cache)) IN
         IF A.kind = "error" THEN A
         ELSE [kind |-> "call", fn |-> SolverFor(beta_guess), A |-> A, k |-> num_modes,
               target |-> TargetFor(g, h, beta_guess)]

\* the cache after wgm_solve: eps_t is read when wgm is assembled
CacheAfterWgmSolve(g, h, cache, beta_guess) ==
    IF SolverFor(beta_guess) = "TypeError" \/ WgmRaises(g) THEN cache
    ELSE CacheAfterRead(g, h, cache)

(***************************************************************************)
(* The mode solver on one grid: SpecWgm                                    *)
(***************************************************************************)
\* the caller takes the result of the last call
Discard ==
    /\ Idle
    /\ ret # None
    /\ ret' = None
    /\ last_call' = Call("None", <<>>)
    /\ calls' = <<>>
    /\ UNCHANGED <<fdfd, heap, eps_t_cache, solutions, built_from, sweep, method_cache, mkl>>

\* wgm_solve(num_modes, beta_guess): the eigensolver returns eigvals, eigvecs
\* eigenvalues the eigensolver may return: real positive, real negative, complex
\* eigenvectors the eigensolver may return for an operator of the given size
\* first-cell entries of an eigenvector: zero, phase pi and phase -pi/2
WgmSolve(num_modes, beta_guess) ==
    /\ Idle
    /\ ret = None
    /\ last_call' = Call("wgm_solve", <<num_modes, beta_guess>>)
    /\ eps_t_cache' = CacheAfterWgmSolve(fdfd, heap, eps_t_cache, beta_guess)
    /\ LET c == WgmSolveCall(fdfd, heap, eps_t_cache, num_modes, beta_guess) IN
       IF c.kind = "error"
       THEN /\ ret' = c
            /\ calls' = <<>>
       ELSE \E eigvals \in [1..num_modes -> {Mul(b, b) : b \in PrincipalRoots}] :
            \E eigvecs \in [1..num_modes -> {[i \in 1..c.A.size |-> IF i = 1 THEN f ELSE <<1, 1>>] :
                    f \in {<<0, 0>>, <<0 - 1, 0>>, <<0, 0 - 1>>}}] :
            \E order \in ArgSorts(SortKeys(eigvals)) :
                /\ calls' = <<[c EXCEPT !.kind = "returned"] @@ [eigvals |-> eigvals, eigvecs |-> eigvecs]>>
                /\ ret' = WgmPost(fdfd, eigvals, eigvecs, order)
    /\ UNCHANGED <<fdfd, heap, solutions, built_from, sweep, method_cache, mkl>>

InitWgm ==
    \E shape \in Shapes, bloch_phase \in {0, 1} :
        GridInit(shape, 1, 1, bloch_phase, 1)

NextWgm ==
    \/ ReadWgm
    \/ \E num_modes \in 1..MaxNumModes : \E beta_guess \in
            {[type |-> "NoneType", val |-> <<>>],
             [type |-> "float", val |-> <<Frac(2, 1)>>],
             [type |-> "float", val |-> <<Frac(0, 1)>>],
             [type |-> "tuple", val |-> <<Frac(1, 1), Frac(2, 1)>>],
             [type |-> "int", val |-> <<Frac(2, 1)>>]} :
        WgmSolve(num_modes, beta_guess)
    \/ Discard

SpecWgm == InitWgm /\ [][NextWgm]_vars

\* the last call read the property wgm
AccessesWgm ==
    \/ last_call.name = "wgm"
    \/ last_call.name = "wgm_solve" /\ SolverFor(last_call.args[2]) # "TypeError"

IsAttributeError(r) == r.kind = "error" /\ r.type = "AttributeError"

\* C8: reading wgm, and so wgm_solve, on a 3-dimensional grid raises the
\* configuration error (AttributeError), no eigensolver is called and neither
\* an operator nor mode data comes back; on a 1- or 2-dimensional grid this
\* error is not raised.
C8_WgmRaisesOn3d ==
    AccessesWgm =>
        IF fdfd.ndim = 3
        THEN IsAttributeError(ret) /\ calls = <<>>
        ELSE ~IsAttributeError(ret) /\ ret.kind \in {"operator", "modes"}

\* wgm_solve was called on a 3-dimensional grid and raised
C8_Witness == last_call.name = "wgm_solve" /\ fdfd.ndim = 3 /\ ret.kind = "error"

\* every returned mode is the (rescaled) eigenvector of the eigenvalue its beta
\* is the root of
Paired ==
    ret.kind = "modes" =>
        \E q \in Perms(Len(ret.betas)) : \A k \in 1..Len(ret.betas) :
            /\ Mul(ret.betas[k], ret.betas[k]) = calls[1].eigvals[q[k]]
            /\ \E f \in {<<0, 0>>, <<1, 0>>, <<0 - 1, 0>>, <<0, 1>>, <<0, 0 - 1>>} :
                 ret.modes[k] =
                    Scaled(HColumn(fdfd, calls[1].eigvals[q[k]], calls[1].eigvecs[q[k]]), f)

Descending ==
    ret.kind = "modes" =>
        \A k \in 1..(Len(ret.betas) - 1) : ret.betas[k][1] >= ret.betas[k + 1][1]

\* C9: whatever eigenvalues the eigensolver returns, the betas returned by
\* wgm_solve have non-increasing real parts and the k-th mode is the
\* eigenvector of the k-th beta.
C9_BetasDescendingAndPaired == Descending /\ Paired

\* C10: after the phase/sign fixing the first-cell entry of every returned
\* mode has phase 0 (complex grid dtype) or a non-negative sign (real grid
\* dtype).
C10_FirstCellNormalized ==
    ret.kind = "modes" =>
        \A k \in 1..Len(ret.modes) :
            LET z == ret.modes[k][1].num IN
            /\ ret.modes[k][1].den = <<>>
            /\ IF fdfd.dtype = "complex128"
               THEN z[2] = 0 /\ z[1] >= 0
               ELSE SignFactor(z)[1] >= 0

\* a complex grid whose eigensolver returned a vector of first-cell phase -pi/2
C10_Witness ==
    /\ ret.kind = "modes"
    /\ fdfd.dtype = "complex128"
    /\ \E m \in 1..Len(calls[1].eigvecs) : calls[1].eigvecs[m][1] = <<0, 0 - 1>>

(***************************************************************************)
(* FDFD.solve (fdfd.py:199-228) and Grid.reshape (grid.py:130-140)         *)
(***************************************************************************)
NdArray(shape, data) == [kind |-> "ndarray", shape |-> shape, data |-> data]

\* the (x, info) pair scipy's gmres and bicgstab return
Tuple(x, info) == [kind |-> "tuple", x |-> x, info |-> info]

\* grid.py:140: a 1-d vector is split in 3 and each part reshaped to shape3,
\* anything else with an ndim is flattened
reshape(g, v) ==
    IF v.kind # "ndarray"
    THEN Error("AttributeError", "'tuple' object has no attribute 'ndim'")
    ELSE IF Len(v.shape) = 1
    THEN IF Len(v.data) % 3 # 0
         THEN Error("ValueError", "array split does not result in an equal division")
         ELSE IF Len(v.data) \div 3 # g.n
         THEN Error("ValueError", "cannot reshape array")
         ELSE NdArray(<<3>> \o shape3(g.shape), v.data)
    ELSE NdArray(<<Len(v.data)>>, v.data)

\* mutant of SolveBranch: the z-only branch taken as the else branch
SolveBranchNoElse(g, size) == IF size = g.n * 3 THEN "full" ELSE "z"

\* fdfd.py:215, 222, 226: the branch a source of the given size takes
SolveBranch(g, size) ==
    IF size = g.n * 3 THEN "full" ELSE IF size = g.n THEN "z" ELSE "mismatch"

\* mutant of UseIterative: the dimension is not tested
UseIterativeAnyDim(g, iterative, solver_fn) == iterative = 0 - 1 /\ solver_fn = "None"

\* fdfd.py:216
UseIterative(g, iterative, solver_fn) ==
    iterative = 0 - 1 /\ solver_fn = "None" /\ g.ndim = 3

\* fdfd.py:221, 223
DirectFn(solver_fn) == IF solver_fn # "None" THEN "solver_fn" ELSE "spsolve_pardiso"

\* fdfd.py:23-26, 221, 223: the except branch binds spsolve, the calls name
\* spsolve_pardiso: without MKL a direct solve with no solver_fn looks up a
\* name that is not bound (before self.mat is read)
CallsUnbound(g, br, iterative, solver_fn, loaded) ==
    /\ ~loaded
    /\ DirectFn(solver_fn) = "spsolve_pardiso"
    /\ br = "z" \/ ~UseIterative(g, iterative, solver_fn)

\* mutant of ZOnlyField: the solution stacked as the x component
ZOnlyFieldAsX(hz) ==
    NdArray(<<3, Len(hz)>>, hz \o [i \in 1..Len(hz) |-> 0] \o [i \in 1..Len(hz) |-> 0])

\* fdfd.py:224-225  o = zeros_like(hz); e = vstack((o, o, hz))
ZOnlyField(hz) ==
    NdArray(<<3, Len(hz)>>, [i \in 1..Len(hz) |-> 0] \o [i \in 1..Len(hz) |-> 0] \o hz)

\* fdfd.py:228
Returned(g, e, reshaped) == IF reshaped THEN reshape(g, e) ELSE e

\* solution vectors a linear solver may return for a system of the given size
SolverOutputs(size) == {[i \in 1..size |-> 1], [i \in 1..size |-> i], [i \in 1..size |-> 0 - i]}

\* fdfd.py:219
\* fdfd.py:214  b = k0 * src.flatten()
Solve(size, solver_fn, reshaped, iterative) ==
    /\ Idle
    /\ ret = None
    /\ last_call' = Call("solve", [size |-> size, solver_fn |-> solver_fn,
                                   reshaped |-> reshaped, iterative |-> iterative])
    /\ LET br == SolveBranch(fdfd, size)
           et == eps_t(fdfd, heap, eps_t_cache)
           b  == [k0 |-> k0(fdfd), src_size |-> size]
       IN  IF br = "mismatch"
           THEN /\ ret' = Error("ValueError", "Expected src.size == 3n or n")
                /\ calls' = <<>>
                /\ UNCHANGED eps_t_cache
           ELSE IF CallsUnbound(fdfd, br, iterative, solver_fn, mkl)
           THEN /\ ret' = Error("NameError", "name 'spsolve_pardiso' is not defined")
                /\ calls' = <<>>
                /\ UNCHANGED eps_t_cache
           ELSE /\ eps_t_cache' = CacheAfterRead(fdfd, heap, eps_t_cache)
                /\ IF br = "full"
                   THEN \E x \in SolverOutputs(fdfd.n * 3) :
                        IF UseIterative(fdfd, iterative, solver_fn)
                        THEN \E info \in {0, 1} :
                             /\ calls' = <<[fn |-> "spilu", A |-> mat(fdfd, et)],
                                           [fn |-> IF iterative = 1 THEN "gmres" ELSE "bicgstab", A |-> mat(fdfd, et),
                                            b |-> b, M |-> "spilu", x |-> x, info |-> info]>>
                             /\ ret' = Returned(fdfd, Tuple(x, info), reshaped)
                        ELSE /\ calls' = <<[fn |-> DirectFn(solver_fn), A |-> mat(fdfd, et),
                                            b |-> b, x |-> x]>>
                             /\ ret' = Returned(fdfd, NdArray(<<Len(x)>>, x), reshaped)
                   ELSE \E hz \in SolverOutputs(fdfd.n) :
                        /\ calls' = <<[fn |-> DirectFn(solver_fn), A |-> matz(fdfd, et),
                                       b |-> b, x |-> hz]>>
                        /\ ret' = Returned(fdfd, ZOnlyField(hz), reshaped)
    /\ UNCHANGED <<fdfd, heap, solutions, built_from, sweep, method_cache, mkl>>

InitSolve ==
    \E shape \in Shapes, w \in Wavelengths, yavg \in {0, 1} :
        GridInit(shape, w, 1, 0, yavg)

NextSolve ==
    \/ \E size \in {fdfd.n * 3, fdfd.n, fdfd.n * 2, fdfd.n + 1} : \E solver_fn \in {"None", "solver_fn"} :
       \E reshaped \in BOOLEAN : \E iterative \in (0 - 1)..2 :
           Solve(size, solver_fn, reshaped, iterative)
    \/ \E e \in EpsValues : \E k \in 1..fdfd.shape[fdfd.ndim] : Fill(k, e)
    \/ Discard

SpecSolve == InitSolve /\ [][NextSolve]_vars

\* the same grids in a process where MKL could not be loaded
InitNoMkl ==
    \E shape \in Shapes, w \in Wavelengths, yavg \in {0, 1} :
        /\ fdfd = NewFDFD(shape, w, 1, 0, yavg)
        /\ heap = [r \in {1} |-> Uniform(shape, 1)]
        /\ eps_t_cache = <<>>
        /\ ret = None
        /\ last_call = Call("None", <<>>)
        /\ calls = <<>>
        /\ solutions = <<>>
        /\ built_from = <<>>
        /\ sweep = None
        /\ method_cache = {}
        /\ mkl = FALSE

SpecNoMkl == InitNoMkl /\ [][NextSolve]_vars

\* the last call was solve with a source of the given branch
SolvedWith(br) == last_call.name = "solve" /\ SolveBranch(fdfd, last_call.args.size) = br

\* one direct solve of the named operator was made, and nothing else
DirectSolveOf(op) ==
    /\ Len(calls) = 1
    /\ calls[1].fn \in {"solver_fn", "spsolve_pardiso"}
    /\ calls[1].A.op = op

\* an ILU preconditioner of mat was built and an iterative solver run with it
IterativeSolveOfMat ==
    /\ Len(calls) = 2
    /\ calls[1].fn = "spilu" /\ calls[1].A.op = "mat"
    /\ calls[2].fn \in {"gmres", "bicgstab"} /\ calls[2].A.op = "mat" /\ calls[2].M = "spilu"

Component(field, c, i) == field.data[(c - 1) * fdfd.n + i]

\* C5: a source of size n is solved by one direct solve of matz; the field
\* returned is zero in its x and y components at every cell and its z
\* component is the solution of the matz system.
C5_ZOnlySolve ==
    SolvedWith("z") =>
        /\ DirectSolveOf("matz")
        /\ ret.kind = "ndarray"
        /\ Len(ret.data) = fdfd.n * 3
        /\ \A i \in 1..fdfd.n :
            /\ Component(ret, 1, i) = 0
            /\ Component(ret, 2, i) = 0
            /\ Component(ret, 3, i) = calls[1].x[i]

\* a z-only solve whose solution is not constant over the cells
C5_Witness ==
    /\ SolvedWith("z")
    /\ ret.kind = "ndarray"
    /\ calls[1].x[1] # calls[1].x[2]

\* C6: for an accepted source (size 3n or n), reshaped = True returns an
\* array of shape (3, *grid shape) and reshaped = False the flattened vector,
\* whichever of the two sizes the source has.
C6_ReturnedShape ==
    (last_call.name = "solve" /\ SolveBranch(fdfd, last_call.args.size) # "mismatch") =>
        /\ ret.kind = "ndarray"
        /\ ret.shape = IF last_call.args.reshaped THEN <<3>> \o shape3(fdfd.shape)
                       ELSE <<fdfd.n * 3>>

\* C7: a source whose size is neither n nor 3n makes solve raise the size
\* error: no linear solver is called, nothing is returned and the grid state
\* (eps, wavelength, and the cached eps_t) is left as it was.
C7_SizeMismatchRaises ==
    [][(last_call'.name = "solve" /\ last_call'.args.size \notin {fdfd.n, fdfd.n * 3}) =>
          /\ ret' = Error("ValueError", "Expected src.size == 3n or n")
          /\ calls' = <<>>
          /\ fdfd' = fdfd
          /\ heap' = heap
          /\ eps_t_cache' = eps_t_cache]_vars

\* solve was called with a source of size 2n and raised
C7_Witness ==
    /\ last_call.name = "solve"
    /\ last_call.args.size = fdfd.n * 2
    /\ ret.kind = "error"

(***************************************************************************)
(* Modes (device.py:46-59) and copy.deepcopy                               *)
(***************************************************************************)
\* copy.deepcopy(fdfd): a new object with its own eps array
DeepCopyFDFD(g, h) ==
    LET r == NewRef(h) IN [fdfd |-> [g EXCEPT !.eps = r], heap |-> Store(h, r, h[g.eps])]

\* Modes(betas, modes, fdfd), device.py:55-59
\* betas.real (device.py:55)
\* device.py:58  self.eps = fdfd.eps: the array of the fdfd passed in
NewModes(betas, modes, g, h) ==
    LET c == DeepCopyFDFD(g, h) IN
    [obj  |-> [betas |-> [k \in 1..Len(betas) |-> betas[k][1]], modes |-> modes, fdfd |-> c.fdfd,
               eps |-> g.eps, num_modes |-> Len(betas)],
     heap |-> c.heap]

\* copy.deepcopy(modes_object): every array of the copy is new
DeepCopyModes(m, h) ==
    LET c  == DeepCopyFDFD(m.fdfd, h)
        r  == NewRef(c.heap)
    IN  [obj |-> [m EXCEPT !.fdfd = c.fdfd, !.eps = r], heap |-> Store(c.heap, r, h[m.eps])]

\* what a Modes object was built from: the live grid's wavelength and eps
\* contents at that moment, and the operator its modes were solved from
BuiltFrom(g, h, A) == [wavelength |-> g.wavelength, eps |-> h[g.eps], A |-> A]

(***************************************************************************)
(* Modes objects next to a live grid that keeps changing: SpecModes        *)
(***************************************************************************)
\* the eigenpairs a Modes object is built from here: num_modes modes of the
\* waveguide-mode operator, eigenvalue 4 then 1 then 4 ...
ModeEigVals(num_modes) == [m \in 1..num_modes |-> IF m % 2 = 1 THEN <<4, 0>> ELSE <<1, 0>>]

\* m = Modes(beta, modes, fdfd) on the live grid, kept by the caller
ModesInit(num_modes) ==
    /\ Idle
    /\ Len(solutions) < MaxModes
    /\ \E order \in ArgSorts(SortKeys(ModeEigVals(num_modes))) :
        LET w == WgmPost(fdfd, ModeEigVals(num_modes),
                         [m \in 1..num_modes |->
                             [i \in 1..(IF fdfd.ndim = 2 THEN 2 * fdfd.n ELSE fdfd.n) |->
                                 IF i = 1 THEN <<0 - 1, 0>> ELSE <<1, 1>>]],
                         order)
            x == NewModes(w.betas, w.modes, fdfd, heap)
        IN  /\ solutions' = Append(solutions, x.obj)
            /\ heap' = x.heap
            /\ built_from' = Append(built_from, BuiltFrom(fdfd, heap, None))
    /\ ret' = [kind |-> "Modes", index |-> Len(solutions) + 1]
    /\ last_call' = Call("Modes", <<num_modes>>)
    /\ calls' = <<>>
    /\ UNCHANGED <<fdfd, eps_t_cache, sweep, method_cache, mkl>>

ModeShapes == {shape \in Shapes : Len(shape) <= 2} \cup {<<2>>}

InitModes ==
    \E shape \in ModeShapes : GridInit(shape, 1, 1, 0, 1)

NextModes ==
    \/ \E num_modes \in 1..MaxNumModes : ModesInit(num_modes)
    \/ \E e \in EpsValues : Fill(1, e)
    \/ \E e \in EpsValues : SetEps(e)
    \/ \E w \in Wavelengths : SetWavelength(w)

SpecModes == InitModes /\ [][NextModes]_vars

\* C2: every permittivity datum a Modes object holds (its eps field and the
\* eps of its fdfd) stays what the grid's permittivity was when the object
\* was constructed, whatever is done to the live grid afterwards.
C2_ModesHoldsOwnEps ==
    \A i \in DOMAIN solutions :
        /\ heap[solutions[i].fdfd.eps] = built_from[i].eps
        /\ heap[solutions[i].eps] = built_from[i].eps
        /\ solutions[i].fdfd.wavelength = built_from[i].wavelength

\* the part of C2 that the code keeps: the fdfd held by a Modes object is a
\* deep copy
ModesFdfdIsCopy ==
    \A i \in DOMAIN solutions :
        /\ heap[solutions[i].fdfd.eps] = built_from[i].eps
        /\ solutions[i].fdfd.wavelength = built_from[i].wavelength
        /\ solutions[i].fdfd.eps # fdfd.eps

(***************************************************************************)
(* ModeDevice (device.py:229-377): lengths are in units of the grid        *)
(* spacing, so int(v / dx) is v and int(v / 2 / dx) is v \div 2            *)
(***************************************************************************)
\* a material block: dim = (x, y) and the permittivity of its material
MaterialBlock(x, y, eps) == [x |-> x, y |-> y, eps |-> eps]

\* the device of the sweeps: ModeDevice(wg, sub, size, wg_height, wavelength, spacing, rib_y)
Device ==
    [nx |-> 4, ny |-> 3, wg |-> MaterialBlock(2, 1, 3), sub |-> MaterialBlock(4, 1, 2),
     wg_height |-> 1, rib_y |-> 0]

\* the phase shifter block and the coupling gap handed to the sweeps
PhaseShifter == MaterialBlock(2, 1, 4)

\* separations a sweep may visit
Seps == {0, 1}

\* eps[x0:x1, y0:y1] = e on an (nx, ny) array, for bounds that are not negative
Paint(a, dev, x0, x1, y0, y1, e) ==
    [i \in 1..(dev.nx * dev.ny) |->
        LET c == Coord(<<dev.nx, dev.ny, 1>>, i) IN
        IF x0 <= c[1] /\ c[1] < x1 /\ y0 <= c[2] /\ c[2] < y1 THEN e ELSE a[i]]

\* ModeDevice.single(ps, sep), device.py:274-291
single(dev, ps, sep) ==
    LET center == dev.nx \div 2
        wg_y   == <<dev.wg_height, dev.wg_height + dev.wg.y>>
        xr_wg  == <<center - dev.wg.x \div 2, center + dev.wg.x \div 2>>
        e0 == Uniform(<<dev.nx, dev.ny>>, 1)
        e1 == Paint(e0, dev, 0, dev.nx, 0, dev.sub.y, dev.sub.eps)
        e2 == Paint(e1, dev, xr_wg[1], xr_wg[2], wg_y[1], wg_y[2], dev.wg.eps)
        e3 == Paint(e2, dev, 0, dev.nx, dev.sub.y, dev.sub.y + dev.rib_y, dev.wg.eps)
    IN  IF ps # None
        THEN LET ps_y  == <<dev.wg.y + dev.wg_height + sep, dev.wg.y + dev.wg_height + sep + ps.y>>
                 xr_ps == <<center - ps.x \div 2, center + ps.x \div 2>>
             IN  Paint(e3, dev, xr_ps[1], xr_ps[2], ps_y[1], ps_y[2], ps.eps)
        ELSE e3

\* ModeDevice.coupled(gap, ps, seps), device.py:305-332, for an even gap
coupled(dev, gap, ps, seps) ==
    LET center == dev.nx \div 2
        wg_y == <<dev.wg_height, dev.wg_height + dev.wg.y>>
        xr_l == <<center - (gap \div 2 + dev.wg.x), center - gap \div 2>>
        xr_r == <<center + gap \div 2, center + (gap \div 2 + dev.wg.x)>>
        e0 == Uniform(<<dev.nx, dev.ny>>, 1)
        e1 == Paint(e0, dev, 0, dev.nx, 0, dev.sub.y, dev.sub.eps)
        e2 == Paint(e1, dev, xr_l[1], xr_l[2], wg_y[1], wg_y[2], dev.wg.eps)
        e3 == Paint(e2, dev, xr_r[1], xr_r[2], wg_y[1], wg_y[2], dev.wg.eps)
        e4 == Paint(e3, dev, 0, dev.nx, dev.sub.y, dev.sub.y + dev.rib_y, dev.wg.eps)
    IN  IF ps # None
        THEN LET ps_y   == <<dev.wg.y + dev.wg_height + seps[1], dev.wg.y + dev.wg_height + seps[1] + ps.y>>
                 ps_y_2 == <<dev.wg.y + dev.wg_height + seps[2], dev.wg.y + dev.wg_height + seps[2] + ps.y>>
                 \* twice the centres wg_l, wg_r; int((2 * wg +- ps.x) / 2)
                 wg_l2  == xr_l[1] + xr_l[2]
                 wg_r2  == xr_r[1] + xr_r[2]
                 xrps_l == <<(wg_l2 - ps.x) \div 2, (wg_l2 + ps.x) \div 2>>
                 xrps_r == <<(wg_r2 - ps.x) \div 2, (wg_r2 + ps.x) \div 2>>
                 e5 == Paint(e4, dev, xrps_l[1], xrps_l[2], ps_y[1], ps_y[2], ps.eps)
             IN  Paint(e5, dev, xrps_r[1], xrps_r[2], ps_y_2[1], ps_y_2[2], ps.eps)
        ELSE e4

(***************************************************************************)
(* The sweeps (device.py:334-398), one loop iteration per step: SpecSweep. *)
(* The progress bar handle pbar is given and iterates over its argument.   *)
(* The device's eps_t may have been read before the sweep.                 *)
(***************************************************************************)
\* fdfd.py:261-270 on the eigenpairs of a sweep
\* what the eigensolver returns in a sweep, the same for every operator: k
\* eigenvalues 1, 4, 9, ... in ascending order, and eigenvectors whose first
\* entry is negative
\* the argsort of keys that ascend strictly
SweepWgmPost(g, k, size) ==
    WgmPost(g, [m \in 1..k |-> <<m * m, 0>>],
            [m \in 1..k |-> [i \in 1..size |-> IF i = 1 THEN <<0 - 1, 0>> ELSE <<1, 1>>]],
            [m \in 1..k |-> m])

\* sequences of 1..MaxSweep points
Points(S) == UNION {[1..len -> S] : len \in 1..MaxSweep}

\* solutions = [] and the loop is entered; a behaviour follows one sweep of
\* a device, whose results stay held
SweepBegin(kind, pts, ps, m) ==
    /\ Idle
    /\ solutions = <<>>
    /\ sweep' = [kind |-> kind, pts |-> pts, ps |-> ps, m |-> m, i |-> 0]
    /\ ret' = None
    /\ last_call' = Call(kind, <<pts, ps, m>>)
    /\ calls' = <<>>
    /\ UNCHANGED <<fdfd, heap, eps_t_cache, solutions, built_from, method_cache, mkl>>

\* ps_sweep(seps, ps, m, pbar), device.py:372-374
PsSweepBegin(seps, ps, m) == SweepBegin("ps_sweep", seps, ps, m)

\* dc_grid(seps, gap, ps, m, pbar), device.py:350-353
\* the points of dc_grid in loop order: (seps[a], seps[b]) for a, then b
DcGridBegin(seps, ps, m) ==
    SweepBegin("dc_grid",
               [j \in 1..(Len(seps) * Len(seps)) |->
                   <<seps[((j - 1) \div Len(seps)) + 1], seps[((j - 1) % Len(seps)) + 1]>>],
               ps, m)

\* dispersion_sweep(device, lmbdas, pbar), device.py:392-394
DispersionBegin(lmbdas) == SweepBegin("dispersion_sweep", lmbdas, None, DispersionNumModes)

\* the permittivity a loop body computes for its point (device.py:354, 375)
PointEps(sw, pt) ==
    IF sw.kind = "ps_sweep" THEN single(Device, sw.ps, pt) ELSE coupled(Device, 0, sw.ps, pt)

\* solutions.append(copy.deepcopy(Modes(beta, modes, fdfd))) after wgm_solve
\* on the grid g with heap h (device.py:259-261, 355, 376, 396-397)
SolveAndAppend(g, h, beta_guess) ==
    LET c == WgmSolveCall(g, h, eps_t_cache, sweep.m, beta_guess)
        w == SweepWgmPost(g, sweep.m, c.A.size)
        x == NewModes(w.betas, w.modes, g, h)
        d == DeepCopyModes(x.obj, x.heap)
        sols == Append(solutions, d.obj)
    IN  /\ fdfd' = g
        /\ solutions' = sols
        /\ heap' = Collect(d.heap, g, sols)
        /\ built_from' = Append(built_from, BuiltFrom(g, h, c.A))
        /\ calls' = <<[c EXCEPT !.kind = "returned"]>>
        /\ eps_t_cache' = CacheAfterWgmSolve(g, h, eps_t_cache, beta_guess)
        /\ sweep' = [sweep EXCEPT !.i = @ + 1]
        /\ UNCHANGED <<ret, last_call, method_cache, mkl>>

\* one iteration of ps_sweep or dc_grid: eps of the point, ModeDevice.solve, append;
\* device.py:259  beta_guess = k0 * sqrt(wg.material.eps), frac * sqrt(x)
\* kept as <<num, den, x>>
DeviceSweepStep ==
    /\ sweep.kind \in {"ps_sweep", "dc_grid"}
    /\ sweep.i < Len(sweep.pts)
    /\ LET a == AssignEps(fdfd, heap, solutions, PointEps(sweep, sweep.pts[sweep.i + 1]))
       IN  SolveAndAppend(a.fdfd, a.heap,
                          [type |-> "float", val |-> <<k0(a.fdfd) \o <<Device.wg.eps>>>>])

\* one iteration of dispersion_sweep, device.py:395-397
DispersionStep ==
    /\ sweep.kind = "dispersion_sweep"
    /\ sweep.i < Len(sweep.pts)
    /\ SolveAndAppend([fdfd EXCEPT !.wavelength = sweep.pts[sweep.i + 1]], heap,
                      [type |-> "NoneType", val |-> <<>>])

\* return solutions
SweepReturn ==
    /\ sweep # None
    /\ sweep.i = Len(sweep.pts)
    /\ sweep' = None
    /\ ret' = [kind |-> "list", len |-> Len(solutions)]
    /\ calls' = <<>>
    /\ UNCHANGED <<fdfd, heap, eps_t_cache, last_call, solutions, built_from, method_cache, mkl>>

\* ModeDevice.__init__, device.py:243-255
InitSweep ==
    \E w \in Wavelengths : GridInit(<<Device.nx, Device.ny>>, w, 1, 0, 1)

NextSweep ==
    \/ \E seps \in Points(Seps), ps \in {None, PhaseShifter}, m \in 1..MaxNumModes : PsSweepBegin(seps, ps, m)
    \/ \E seps \in Points(Seps), ps \in {None, PhaseShifter}, m \in 1..MaxNumModes : DcGridBegin(seps, ps, m)
    \/ \E lmbdas \in Points(Wavelengths) : DispersionBegin(lmbdas)
    \/ DeviceSweepStep
    \/ DispersionStep
    \/ SweepReturn
    \/ ReadEpsT

SpecSweep == InitSweep /\ [][NextSweep]_vars

\* C3: in a sweep, the i-th Modes object was solved from the operator built
\* with the permittivity and wavelength of the i-th point, holds that
\* point's permittivity and wavelength, and stays so while later points are
\* solved.
C3_SweepPointSolvedFromItsOperator ==
    \A i \in DOMAIN solutions :
        /\ built_from[i].A.eps_t = EpsTOf(built_from[i].eps, fdfd.shape, fdfd.yee_avg)
        /\ built_from[i].A.k0 = Frac(2, built_from[i].wavelength)
        /\ heap[solutions[i].fdfd.eps] = built_from[i].eps
        /\ heap[solutions[i].eps] = built_from[i].eps
        /\ solutions[i].fdfd.wavelength = built_from[i].wavelength

\* the part of C3 that the code keeps: a result holds its own point's
\* permittivity and wavelength, whatever later points do to the live grid
SweepResultsKeepTheirPoint ==
    \A i \in DOMAIN solutions :
        /\ built_from[i].A.k0 = Frac(2, built_from[i].wavelength)
        /\ heap[solutions[i].fdfd.eps] = built_from[i].eps
        /\ heap[solutions[i].eps] = built_from[i].eps
        /\ solutions[i].fdfd.wavelength = built_from[i].wavelength
        /\ sweep # None /\ sweep.kind # "dispersion_sweep" =>
               built_from[i].eps = PointEps(sweep, sweep.pts[i])

(***************************************************************************)
(* The accessors of Modes (device.py:61-118, 193-226)                      *)
(***************************************************************************)
\* numpy indexing of an axis of length m with an integer: the 1-based
\* position, a negative index counting from the end; 0 for an IndexError
NpIndex(m, idx) ==
    IF idx >= m \/ idx < 0 - m THEN 0 ELSE IF idx < 0 THEN m + idx + 1 ELSE idx + 1

IndexError == Error("IndexError", "index is out of bounds for axis 0")

\* the mode_idx a call binds: the default 0 when no argument is given
ModeIdx(args) == IF args = <<>> THEN 0 ELSE args[1]

\* device.py:72  self.fdfd.reshape(self.modes[mode_idx])
HBody(m, idx) ==
    LET k == NpIndex(m.num_modes, idx) IN
    IF k = 0 THEN IndexError ELSE reshape(m.fdfd, NdArray(<<Len(m.modes[k])>>, m.modes[k]))

\* device.py:110  self.betas[mode_idx]
ModesBeta(m, idx) ==
    LET k == NpIndex(m.num_modes, idx) IN
    IF k = 0 THEN IndexError ELSE [kind |-> "float", val |-> m.betas[k]]

\* device.py:118  self.betas[mode_idx] / self.fdfd.k0
ModesN(m, idx) ==
    LET k == NpIndex(m.num_modes, idx) IN
    IF k = 0 THEN IndexError ELSE [kind |-> "float", val |-> m.betas[k], over |-> k0(m.fdfd)]

\* FDFD.h2e(h, beta): the E-field derived from the H-field, the propagation
\* constant and the grid the Modes object owns (k0 and eps_t of its fdfd)
h2e(g, h, hfield, b) ==
    [kind |-> "ndarray", shape |-> hfield.shape,
     data |-> [field |-> "e", h |-> hfield.data, beta |-> b, k0 |-> k0(g),
               eps_t |-> EpsTOf(h[g.eps], g.shape, g.yee_avg)]]

\* poynting_z(e, h).squeeze(): the z component of the Poynting vector on the
\* cross section
poynting_z(g, efield, hfield) ==
    [kind |-> "ndarray", shape |-> SelectSeq(g.shape, LAMBDA d : d # 1),
     data |-> [field |-> "sz", e |-> efield.data, h |-> hfield.data]]

\* a cache key of functools.lru_cache: the function and the arguments as
\* passed, self (hashed by identity) first
Key(fn, j, args) == <<fn, j, args>>

\* the body of a cached method has run
Ran(fn, j, idx) == [fn |-> fn, obj |-> j, mode_idx |-> idx]

\* the outcome of a method call: what it returns or raises, the cache it
\* leaves and the cached-method bodies it ran
Outcome(v, cache, ran) == [val |-> v, cache |-> cache, ran |-> ran]

IsError(v) == v.kind = "error"

\* functools.lru_cache around a body whose outcome is r: a key that holds a
\* result answers without running the body; a body that raises stores nothing
lru_cache(key, cache, r) ==
    IF key \in cache THEN Outcome(r.val, cache, <<>>)
    ELSE Outcome(r.val, IF IsError(r.val) THEN r.cache ELSE r.cache \cup {key}, r.ran)

\* @lru_cache() h(mode_idx), device.py:61-72
RunH(m, j, cache, args) ==
    lru_cache(Key("h", j, args), cache,
              Outcome(HBody(m, ModeIdx(args)), cache, <<Ran("h", j, ModeIdx(args))>>))

\* the body of e after its self.h(mode_idx) gave rh, device.py:85
EBody(m, j, h, idx, rh) ==
    Outcome(IF IsError(rh.val) THEN rh.val
            ELSE h2e(m.fdfd, h, rh.val, m.betas[NpIndex(m.num_modes, idx)]),
            rh.cache, <<Ran("e", j, idx)>> \o rh.ran)

\* @lru_cache() e(mode_idx), device.py:74-85: h is called with the index
\* as a positional argument
RunE(m, j, h, cache, args) ==
    lru_cache(Key("e", j, args), cache,
              EBody(m, j, h, ModeIdx(args), RunH(m, j, cache, <<ModeIdx(args)>>)))

\* the body of sz after self.e(mode_idx) gave re and self.h(mode_idx) gave rh,
\* device.py:99
SzBody(m, j, idx, re, rh) ==
    IF IsError(re.val) THEN Outcome(re.val, re.cache, <<Ran("sz", j, idx)>> \o re.ran)
    ELSE Outcome(poynting_z(m.fdfd, re.val, rh.val), rh.cache,
                 <<Ran("sz", j, idx)>> \o re.ran \o rh.ran)

SzAfterE(m, j, idx, re) == SzBody(m, j, idx, re, RunH(m, j, re.cache, <<idx>>))

\* @lru_cache() sz(mode_idx), device.py:87-99
RunSz(m, j, h, cache, args) ==
    lru_cache(Key("sz", j, args), cache,
              SzAfterE(m, j, ModeIdx(args), RunE(m, j, h, cache, <<ModeIdx(args)>>)))

\* np.stack(hs).squeeze() of M fields of shape (3, X, Y, Z): the axes of length 1 go
HsValue(m, fields) ==
    IF \E k \in 1..m.num_modes : IsError(fields[k])
    THEN fields[CHOOSE k \in 1..m.num_modes :
                    IsError(fields[k]) /\ \A l \in 1..(k - 1) : ~IsError(fields[l])]
    ELSE NdArray(SelectSeq(<<m.num_modes, 3>> \o shape3(m.fdfd.shape), LAMBDA d : d # 1),
                 [k \in 1..m.num_modes |-> fields[k].data])

\* @property @lru_cache() hs, device.py:120-131
\* the fields of all the modes, reshaped, device.py:131
RunHs(m, j, cache) ==
    lru_cache(Key("hs", j, <<>>), cache,
              Outcome(HsValue(m, [k \in 1..m.num_modes |->
                                     reshape(m.fdfd, NdArray(<<Len(m.modes[k])>>, m.modes[k]))]),
                      cache, <<Ran("hs", j, 0)>>))

\* te_ratios[idx] and n(idx) of a plot's title, device.py:133-143, 199, 224
Title(m, idx, rh) ==
    IF IsError(rh.val) THEN rh.val
    ELSE IF NpIndex(rh.val.shape[1], idx) = 0 \/ NpIndex(m.num_modes, idx) = 0 THEN IndexError
    ELSE None

PlotSzAfter(m, idx, rs, rh) ==
    IF IsError(rs.val) THEN rs
    ELSE Outcome(Title(m, idx, rh), rh.cache, rs.ran \o rh.ran)

PlotSzAfterSz(m, j, idx, rs) == PlotSzAfter(m, idx, rs, RunHs(m, j, rs.cache))

\* plot_sz(ax, idx), device.py:193-201: the ValueError of line 195 is built
\* and dropped; sz(idx), n(idx) and te_ratios[idx] are evaluated, the drawing
\* itself is the plotting library's
RunPlotSz(m, j, h, cache, idx) == PlotSzAfterSz(m, j, idx, RunSz(m, j, h, cache, <<idx>>))

PlotFieldAfter(m, idx, rh) == Outcome(Title(m, idx, rh), rh.cache, rh.ran)

\* plot_field(ax, idx) with use_e = False, device.py:216-226: field[idx][axis]
\* of hs, then n(idx) and te_ratios[idx]
RunPlotField(m, j, cache, idx) == PlotFieldAfter(m, idx, RunHs(m, j, cache))

Accessors == {"h", "e", "sz", "beta", "n", "plot_sz", "plot_field"}

\* m.fn(*args) on the j-th Modes object m
RunAccessor(fn, m, j, args) ==
    CASE fn = "h"  -> RunH(m, j, method_cache, args)
      [] fn = "e"  -> RunE(m, j, heap, method_cache, args)
      [] fn = "sz" -> RunSz(m, j, heap, method_cache, args)
      [] fn = "beta" -> Outcome(ModesBeta(m, ModeIdx(args)), method_cache, <<>>)
      [] fn = "n"    -> Outcome(ModesN(m, ModeIdx(args)), method_cache, <<>>)
      [] fn = "plot_sz"    -> RunPlotSz(m, j, heap, method_cache, ModeIdx(args))
      [] fn = "plot_field" -> RunPlotField(m, j, method_cache, ModeIdx(args))

\* the accessors whose mode_idx has the default 0
Access(fn, j, args) ==
    /\ Idle
    /\ ret = None
    /\ j \in DOMAIN solutions
    /\ args = <<>> => fn \in {"h", "e", "sz", "beta", "n"}
    /\ \E r \in {RunAccessor(fn, solutions[j], j, args)} :
        /\ ret' = r.val
        /\ method_cache' = r.cache
        /\ calls' = r.ran
    /\ last_call' = Call(fn, [obj |-> j, args |-> args])
    /\ UNCHANGED <<fdfd, heap, eps_t_cache, solutions, built_from, sweep, mkl>>

(***************************************************************************)
(* One Modes object and its accessors: SpecAccess                          *)
(***************************************************************************)

\* a grid; the one Modes object is built on it by the first step
InitAccess ==
    \E shape \in ModeShapes : GridInit(shape, 1, 1, 0, 1)

ModesInitOnce(num_modes) ==
    /\ solutions = <<>>
    /\ ModesInit(num_modes)

\* the mode indices tried on M modes: the default, the first mode, the index
\* before it, and the indices past either end of numpy's range
NextAccess ==
    \/ \E num_modes \in 1..MaxNumModes : ModesInitOnce(num_modes)
    \/ \E fn \in Accessors : \E j \in DOMAIN solutions :
       \E args \in {<<>>} \cup {<<i>> : i \in {0 - (solutions[j].num_modes + 1), 0 - 1, 0,
                                                  solutions[j].num_modes}} :
           Access(fn, j, args)
    \/ Discard

SpecAccess == InitAccess /\ [][NextAccess]_vars

\* the last call was an accessor of a Modes object called with a mode index
\* outside 0 <= mode_idx < M
OutOfRangeAccess ==
    /\ last_call.name \in Accessors
    /\ LET idx == ModeIdx(last_call.args.args) IN
       idx < 0 \/ idx >= solutions[last_call.args.obj].num_modes

\* C11: an accessor called with a mode index outside 0 <= mode_idx < M raises
\* an error and returns no data (whatever error it is: on a one-dimensional
\* grid the reshape of h fails before the index is looked at).
C11_OutOfRangeRaises ==
    OutOfRangeAccess => IsError(ret)

\* the part of C11 that the code keeps: an index at or beyond M, or below -M,
\* raises the IndexError
BeyondEndRaises ==
    (/\ last_call.name \in Accessors
     /\ fdfd.ndim = 2
     /\ LET idx == ModeIdx(last_call.args.args)
            M   == solutions[last_call.args.obj].num_modes
        IN  idx >= M \/ idx < 0 - M)
    => ret.kind = "error" /\ ret.type = "IndexError"

(***************************************************************************)
(* Construction: Grid.__init__ (grid.py:18-52) and SimGrid.__init__        *)
(* (grid.py:144-182). An argument is a Python value with its type.         *)
(***************************************************************************)
Py(type, val) == [type |-> type, val |-> val]

\* grid.py:27: a float is spread over the axes, anything else goes through
\* np.asarray (a bare int becomes a 0-d array)
SpacingArray(shape, spacing) ==
    IF spacing.type = "float" THEN NdArray(<<Len(shape)>>, [i \in 1..Len(shape) |-> spacing.val])
    ELSE IF spacing.type = "tuple" THEN NdArray(<<Len(spacing.val)>>, spacing.val)
    ELSE NdArray(<<>>, <<spacing.val>>)

\* grid.py:35: an ndarray is taken as it is, a number fills np.ones(shape)
EpsArray(shape, eps) ==
    IF eps.type = "ndarray" THEN NdArray(eps.shape, eps.data)
    ELSE NdArray(shape, Uniform(shape, eps.val))

\* the eps.shape check of grid.py:36-38 left out
GridNoEpsCheck(shape, sp, e) ==
    IF sp.shape = <<>> THEN Error("TypeError", "len() of unsized object")
    ELSE IF Len(shape) # sp.shape[1]
    THEN Error("AttributeError", "Require len(grid_shape) == len(grid_spacing)")
    ELSE [kind |-> "Grid", shape |-> shape, ndim |-> Len(shape), n |-> CellCount(shape),
          spacing |-> sp, eps |-> e]

\* Grid.__init__ after spacing and eps are made arrays, grid.py:31-38
GridChecked(shape, sp, e) ==
    IF sp.shape = <<>> THEN Error("TypeError", "len() of unsized object")
    ELSE IF Len(shape) # sp.shape[1]
    THEN Error("AttributeError", "Require len(grid_shape) == len(grid_spacing)")
    ELSE IF shape # e.shape
    THEN Error("AttributeError", "Require grid_shape == eps.shape")
    ELSE [kind |-> "Grid", shape |-> shape, ndim |-> Len(shape), n |-> CellCount(shape),
          spacing |-> sp, eps |-> e]

\* Grid(shape, spacing, eps)
Grid(shape, spacing, eps) == GridChecked(shape, SpacingArray(shape, spacing), EpsArray(shape, eps))

\* grid.py:161-162: the array made of a tuple by line 161 is overwritten by
\* line 162, which makes an array of an int only
PmlShape(ndim, pml) ==
    IF pml.type = "int" THEN Py("ndarray", [i \in 1..ndim |-> pml.val]) ELSE pml

\* grid.py:166-171: the outcome of the checks of the PML (None when they pass)
PmlCheck(shape, pml_shape) ==
    IF pml_shape.type = "NoneType" THEN None
    ELSE IF pml_shape.type = "tuple"
    THEN Error("TypeError", "'<=' not supported between instances of 'tuple' and 'int'")
    ELSE IF \/ \E ax \in 1..Len(shape) : pml_shape.val[ax] <= 3
            \/ \E ax \in 1..Len(shape) : pml_shape.val[ax] >= shape[ax] \div 2
    THEN Error("AttributeError", "PML shape must be more than 3 and less than half the shape on each axis.")
    ELSE IF Len(pml_shape.val) # Len(shape)
    THEN Error("AttributeError", "Need len(pml_shape) == len(grid_shape)")
    ELSE None

\* SimGrid.__init__ after Grid.__init__ gave g, grid.py:161-177
SimGridAfter(g, pml, bloch_phase) ==
    IF IsError(g) THEN g
    ELSE IF IsError(PmlCheck(g.shape, PmlShape(g.ndim, pml)))
    THEN PmlCheck(g.shape, PmlShape(g.ndim, pml))
    ELSE [kind |-> "SimGrid", shape |-> g.shape, ndim |-> g.ndim, n |-> g.n,
          spacing |-> g.spacing, eps |-> g.eps, pml_shape |-> PmlShape(g.ndim, pml),
          bloch_phase |-> bloch_phase,
          dtype |-> DtypeOf(IF pml.type = "NoneType" THEN "None" ELSE "pml", bloch_phase)]

\* SimGrid(shape, spacing, eps, bloch_phase, pml)
SimGrid(shape, spacing, eps, bloch_phase, pml) ==
    SimGridAfter(Grid(shape, spacing, eps), pml, bloch_phase)

\* g = SimGrid(...): the caller gets the object or the exception
Construct(shape, spacing, eps, pml) ==
    /\ Idle
    /\ ret = None
    /\ ret' = SimGrid(shape, spacing, eps, 0, pml)
    /\ last_call' = Call("SimGrid", [shape |-> shape, spacing |-> spacing, eps |-> eps, pml |-> pml])
    /\ calls' = <<>>
    /\ UNCHANGED <<fdfd, heap, eps_t_cache, solutions, built_from, sweep, method_cache, mkl>>

(***************************************************************************)
(* Constructing grids: SpecGrid                                            *)
(***************************************************************************)

InitGrid == \E shape \in Shapes : GridInit(shape, 1, 1, 0, 1)

\* an ndarray passed as an argument
NextGrid ==
    \/ \E shape \in {<<9>>, <<10>>, <<10, 9>>, <<10, 10>>},
          spacing \in {Py("float", 1), Py("int", 1), Py("tuple", <<1>>), Py("tuple", <<1, 1>>)},
          eps \in {Py("float", 2)} \cup
                  {[type |-> "ndarray", shape |-> s, data |-> Uniform(s, 2)] :
                      s \in {<<9>>, <<10>>, <<10, 9>>}},
          pml \in {Py("NoneType", <<>>), Py("int", 3), Py("int", 4), Py("int", 5),
                   Py("tuple", <<4>>), Py("tuple", <<4, 4>>)} :
        Construct(shape, spacing, eps, pml)
    \/ Discard

SpecGrid == InitGrid /\ [][NextGrid]_vars

\* the thickness asked of axis ax by a PML argument
Thickness(pml, ax) == IF pml.type = "int" THEN pml.val ELSE pml.val[ax]

\* the last call made a grid with a PML whose other arguments are in order
PmlRequested ==
    /\ last_call.name = "SimGrid"
    /\ last_call.args.pml.type \in {"int", "tuple"}
    /\ last_call.args.pml.type = "tuple" => Len(last_call.args.pml.val) = Len(last_call.args.shape)
    /\ ~IsError(Grid(last_call.args.shape, last_call.args.spacing, last_call.args.eps))

\* C12: a grid with a PML (an int or a per-axis tuple) is constructed exactly
\* when 3 < thickness < shape[axis] / 2 on every axis, the half taken in the
\* reals; otherwise the construction fails with a configuration error.
C12_PmlAcceptance ==
    PmlRequested =>
        IF \A ax \in 1..Len(last_call.args.shape) :
              /\ 3 < Thickness(last_call.args.pml, ax)
              /\ 2 * Thickness(last_call.args.pml, ax) < last_call.args.shape[ax]
        THEN ret.kind = "SimGrid"
        ELSE IsError(ret) /\ ret.type = "AttributeError"

\* what the code does with an int: accepted exactly when
\* 3 < thickness < shape[axis] // 2 on every axis
IntPmlAcceptance ==
    (PmlRequested /\ last_call.args.pml.type = "int") =>
        IF \A ax \in 1..Len(last_call.args.shape) :
              /\ 3 < last_call.args.pml.val
              /\ last_call.args.pml.val < last_call.args.shape[ax] \div 2
        THEN ret.kind = "SimGrid"
        ELSE IsError(ret) /\ ret.type = "AttributeError"

\* the arguments of the last construction disagree: the spacing (a float or
\* a tuple) has not one entry per axis, or the eps array has not the shape
Mismatched ==
    /\ last_call.name = "SimGrid"
    /\ last_call.args.spacing.type \in {"float", "tuple"}
    /\ \/ SpacingArray(last_call.args.shape, last_call.args.spacing).shape # <<Len(last_call.args.shape)>>
       \/ EpsArray(last_call.args.shape, last_call.args.eps).shape # last_call.args.shape

\* C13: every constructed grid has eps.shape == shape and
\* len(spacing) == len(shape); a construction whose arguments disagree on
\* either fails with a configuration error (AttributeError).
C13_GridShapesAgree ==
    /\ ret.kind = "SimGrid" =>
        /\ ret.eps.shape = ret.shape
        /\ ret.spacing.shape = <<Len(ret.shape)>>
        /\ Len(ret.eps.data) = Prod(ret.shape)
    /\ Mismatched => IsError(ret) /\ ret.type = "AttributeError"

\* a grid constructed on an eps array and a per-axis spacing
C13_Witness ==
    /\ ret.kind = "SimGrid"
    /\ last_call.name = "SimGrid"
    /\ last_call.args.eps.type = "ndarray"
    /\ last_call.args.spacing.type = "tuple"
    /\ ret.ndim = 2

\* a construction refused for its eps array
C13_Refused ==
    /\ Mismatched
    /\ IsError(ret)
    /\ last_call.args.eps.type = "ndarray"
    /\ last_call.args.spacing.type = "float"

(***************************************************************************)
(* Sparse matrices (scipy.sparse) as dense tables of Gaussian integers:    *)
(* A[r][c], 1-based. The spacings are unit fractions 1/k, so that the      *)
(* 1 / dx of grid.py:212 is the integer k.                                 *)
(***************************************************************************)
Zero == <<0, 0>>

One == <<1, 0>>

Conj(z) == <<z[1], 0 - z[2]>>

\* a scipy matrix holds its entries: the table A with every entry computed
\* (the value is A itself)
Stored(A) == [r \in 1..Len(A) |-> A[r] \o <<>>] \o <<>>

\* sp.eye(n)
Eye(n) ==
    Stored([r \in 1..n |-> [c \in 1..n |-> IF r = c THEN One ELSE Zero]])

\* sp.diags(vals, offs, shape=(n, n)): vals[k] along the diagonal c - r = offs[k]
Diags(vals, offs, n) ==
    Stored([r \in 1..n |-> [c \in 1..n |->
        IF \E k \in 1..Len(offs) : c - r = offs[k]
        THEN vals[CHOOSE k \in 1..Len(offs) : c - r = offs[k]]
        ELSE Zero]])

\* sp.kron(A, B)
Kron(A, B) ==
    Stored([r \in 1..(Len(A) * Len(B)) |-> [c \in 1..(Len(A) * Len(B)) |->
        Mul(A[((r - 1) \div Len(B)) + 1][((c - 1) \div Len(B)) + 1],
            B[((r - 1) % Len(B)) + 1][((c - 1) % Len(B)) + 1])]])

\* the backward derivative with its wrapped term on the wrong side
AxisDerivBackLow(b, n, back) ==
    IF n = 1 THEN <<<<Zero>>>>
    ELSE IF back THEN Diags(<<One, Neg(One), Neg(Conj(b))>>, <<0, 0 - 1, 0 - (n - 1)>>, n)
    ELSE Diags(<<Neg(One), One, b>>, <<0, 1, 1 - n>>, n)

\* grid.py:202-208: the derivative along one axis of n cells with Bloch
\* factor b; the number 0 (a 1 x 1 zero matrix under sp.kron) on one cell
AxisDeriv(b, n, back) ==
    IF n = 1 THEN <<<<Zero>>>>
    ELSE IF back THEN Diags(<<One, Neg(One), Neg(Conj(b))>>, <<0, 0 - 1, n - 1>>, n)
    ELSE Diags(<<Neg(One), One, b>>, <<0, 1, 1 - n>>, n)

\* grid.py:212: sp.diags(1 / dx[ax].ravel()) @ d
Scaled1(k, A) ==
    Stored([r \in 1..Len(A) |-> [c \in 1..Len(A) |-> Mul(<<k, 0>>, A[r][c])]])

\* grid.py:209-211: the axis derivative tiled over the other axes
Tiled(s, ax, d) ==
    CASE ax = 1 -> Kron(d, Eye(s[2] * s[3]))
      [] ax = 2 -> Kron(Kron(Eye(s[1]), d), Eye(s[3]))
      [] ax = 3 -> Kron(Eye(s[1] * s[2]), d)

\* SimGrid.deriv(back), grid.py:184-214: (d_x, d_y, d_z)
\* grid.py:196: the Bloch factor of an axis, 1 on the axes the grid has not
\* grid.py:40-41, 178, 212: 1 / dx on an axis (the same in every cell
\* without a PML), 1 on the axes the grid has not
deriv(g, back) ==
    [ax \in 1..3 |->
        Scaled1(IF ax <= g.ndim THEN g.spacing[ax][2] \div g.spacing[ax][1] ELSE 1,
                Tiled(shape3(g.shape), ax,
                      AxisDeriv(IF ax <= g.ndim THEN BlochFactor(g.bloch_phase) ELSE One,
                                shape3(g.shape)[ax], back)))]

\* grid.py:216-222
df(g) == deriv(g, FALSE)

db(g) == deriv(g, TRUE)

\* a read of the property df or db
ReadDeriv(back) ==
    /\ Idle
    /\ ret = None
    /\ ret' = [kind |-> "list", val |-> deriv(fdfd, back)]
    /\ last_call' = Call(IF back THEN "db" ELSE "df", <<>>)
    /\ calls' = <<>>
    /\ UNCHANGED <<fdfd, heap, eps_t_cache, solutions, built_from, sweep, method_cache, mkl>>

\* d2curl_op with the sign of one block slipped
d2curl_opSignSlip(d) ==
    Stored([r \in 1..(3 * Len(d[1])) |-> [c \in 1..(3 * Len(d[1])) |->
        LET i  == (r - 1) \div Len(d[1])
            j  == (c - 1) \div Len(d[1])
            rr == ((r - 1) % Len(d[1])) + 1
            cc == ((c - 1) % Len(d[1])) + 1
        IN  CASE i = 0 /\ j = 1 -> d[3][rr][cc]
              [] i = 0 /\ j = 2 -> d[2][rr][cc]
              [] i = 1 /\ j = 0 -> d[3][rr][cc]
              [] i = 1 /\ j = 2 -> Neg(d[1][rr][cc])
              [] i = 2 /\ j = 0 -> Neg(d[2][rr][cc])
              [] i = 2 /\ j = 1 -> d[1][rr][cc]
              [] OTHER -> Zero]])

\* utils.py:142-146: bmat([[o, -d[2], d[1]], [d[2], o, -d[0]], [-d[1], d[0], o]])
d2curl_op(d) ==
    Stored([r \in 1..(3 * Len(d[1])) |-> [c \in 1..(3 * Len(d[1])) |->
        LET i  == (r - 1) \div Len(d[1])
            j  == (c - 1) \div Len(d[1])
            rr == ((r - 1) % Len(d[1])) + 1
            cc == ((c - 1) % Len(d[1])) + 1
        IN  CASE i = 0 /\ j = 1 -> Neg(d[3][rr][cc])
              [] i = 0 /\ j = 2 -> d[2][rr][cc]
              [] i = 1 /\ j = 0 -> d[3][rr][cc]
              [] i = 1 /\ j = 2 -> Neg(d[1][rr][cc])
              [] i = 2 /\ j = 0 -> Neg(d[2][rr][cc])
              [] i = 2 /\ j = 1 -> d[1][rr][cc]
              [] OTHER -> Zero]])

\* grid.py:224-230
curl_f(g) == d2curl_op(df(g))

curl_b(g) == d2curl_op(db(g))

\* sum over k = 1..m of A[r][k] * B[k][c]
RECURSIVE Dot(_, _, _, _, _)
Dot(A, B, r, c, m) ==
    IF m = 0 THEN Zero ELSE Add(Dot(A, B, r, c, m - 1), Mul(A[r][m], B[m][c]))

\* A @ B
MatMul(A, B) ==
    Stored([r \in 1..Len(A) |-> [c \in 1..Len(A) |-> Dot(A, B, r, c, Len(A))]])

\* the forward curl applied twice
curl_curlForwardTwice(g) == MatMul(curl_f(g), curl_f(g))

\* fdfd.py:406-411: d2curl_op(self.db) @ d2curl_op(self.df); the property is
\* cached, and nothing it is built from changes after construction
curl_curl(g) == MatMul(curl_b(g), curl_f(g))

\* the entries of mat, fdfd.py:116: curl_curl - k0 ** 2 * diags(eps_t.flatten()),
\* an entry being the curl_curl term and, on the diagonal, the k0 and the
\* eps_t component taken off it
MatTable(g, cc, flat) ==
    [r \in 1..(3 * g.n) |-> [c \in 1..(3 * g.n) |->
        [curl_curl |-> cc[r][c],
         minus |-> IF r = c THEN [k0 |-> k0(g), eps |-> flat[r]] ELSE None]]]

mat_table(g, et) == MatTable(g, curl_curl(g), et[1] \o et[2] \o et[3])

\* a read of the property mat, entry by entry
ReadMatTable ==
    /\ Idle
    /\ ret = None
    /\ ret' = [kind |-> "spmatrix", val |-> mat_table(fdfd, eps_t(fdfd, heap, eps_t_cache))]
    /\ eps_t_cache' = CacheAfterRead(fdfd, heap, eps_t_cache)
    /\ last_call' = Call("mat", <<>>)
    /\ calls' = <<>>
    /\ UNCHANGED <<fdfd, heap, solutions, built_from, sweep, method_cache, mkl>>

(***************************************************************************)
(* The operators of a grid without PML: SpecOps                            *)
(***************************************************************************)

\* spacing 1.0 on every axis, or 1/2, 1/3, 1/4 along x, y, z
InitOps ==
    \E shape \in {<<2>>, <<3>>, <<8>>, <<2, 2>>, <<3, 2>>, <<2, 1, 2>>}, bloch_phase \in {0, 1} :
    \E sp \in {[ax \in 1..Len(shape) |-> Frac(1, 1)], [ax \in 1..Len(shape) |-> Frac(1, ax + 1)]} :
        /\ fdfd = [NewFDFD(shape, 1, 1, bloch_phase, 1) EXCEPT !.spacing = sp]
        /\ heap = [r \in {1} |-> Uniform(shape, 1)]
        /\ eps_t_cache = <<>>
        /\ ret = None
        /\ last_call = Call("None", <<>>)
        /\ calls = <<>>
        /\ solutions = <<>>
        /\ built_from = <<>>
        /\ sweep = None
        /\ method_cache = {}
        /\ mkl = TRUE

NextOps ==
    \/ \E back \in BOOLEAN : ReadDeriv(back)
    \/ ReadMatTable
    \/ \E e \in EpsValues : Fill(1, e)
    \/ \E w \in Wavelengths : SetWavelength(w)
    \/ Discard

SpecOps == InitOps /\ [][NextOps]_vars

\* the negated conjugate transpose of a matrix
NegH(A) == [r \in 1..Len(A) |-> [c \in 1..Len(A) |-> Neg(Conj(A[c][r]))]]

\* C14: on a grid without PML and with zero Bloch phase, of any shape
\* (axes of length 2 included), the backward derivative along every axis is
\* the negated conjugate transpose of the forward one: db[ax] = -df[ax]^H.
C14_BackIsNegAdjoint ==
    (last_call.name = "db" /\ fdfd.pml_shape = "None" /\ fdfd.bloch_phase = 0) =>
        \A ax \in 1..3 : ret.val[ax] = NegH(df(fdfd)[ax])

\* db read on a two-dimensional grid with an axis of two cells and one of three
C14_Witness ==
    /\ last_call.name = "db"
    /\ fdfd.bloch_phase = 0
    /\ fdfd.shape = <<3, 2>>
    /\ ret.val[1][1][5] = <<0 - 1, 0>>

\* C15: on a grid without PML and with zero Bloch phase, for every eps and
\* k0, mat = curl_b @ curl_f - k0^2 diag(eps_t) is symmetric.
C15_MatSymmetric ==
    (last_call.name = "mat" /\ ret.kind = "spmatrix"
        /\ fdfd.pml_shape = "None" /\ fdfd.bloch_phase = 0) =>
        \A r \in 1..(3 * fdfd.n) : \A c \in 1..(3 * fdfd.n) : ret.val[r][c] = ret.val[c][r]

\* mat read on a two-dimensional grid, after the wavelength and the eps were
\* changed: it has entries off the diagonal
C15_Witness ==
    /\ last_call.name = "mat"
    /\ ret.kind = "spmatrix"
    /\ fdfd.bloch_phase = 0
    /\ fdfd.ndim = 2
    /\ fdfd.wavelength = 2
    /\ \E i \in 1..fdfd.n : heap[fdfd.eps][i] = 2
    /\ \E r \in 1..(3 * fdfd.n) : \E c \in 1..(3 * fdfd.n) :
          r # c /\ ret.val[r][c].curl_curl # Zero

\* the step calls fn on object j with mode index idx
CallsAccessor(fn, j, idx) ==
    /\ last_call'.name = fn
    /\ last_call'.args.obj = j
    /\ ModeIdx(last_call'.args.args) = idx

\* the step runs the body of fn on object j for mode index idx
Recomputes(fn, j, idx) == \E k \in 1..Len(calls') : calls'[k] = Ran(fn, j, idx)

\* C16: once e(i) or sz(i) of a Modes object has been computed, no later call
\* of it on the same object for the same index i runs the body again.
C16_NoRecompute ==
    [][\A fn \in {"e", "sz"} : \A key \in method_cache :
        (key[1] = fn /\ CallsAccessor(fn, key[2], ModeIdx(key[3])))
            => ~Recomputes(fn, key[2], ModeIdx(key[3]))]_vars

\* what the cache gives: a call written the same way as one that returned
\* does not run the body again
SameCallNoRecompute ==
    [][\A fn \in {"h", "e", "sz"} : \A key \in method_cache :
        (key[1] = fn /\ CallsAccessor(fn, key[2], ModeIdx(key[3]))
                     /\ last_call'.args.args = key[3])
            => ~Recomputes(fn, key[2], ModeIdx(key[3]))]_vars

\* the last call was a solve whose iterative solver stopped short of the
\* tolerance (info > 0)
NotConverged ==
    /\ last_call.name = "solve"
    /\ Len(calls) = 2
    /\ calls[2].fn \in {"gmres", "bicgstab"}
    /\ calls[2].info # 0

\* the errors of configuration and shape (grid.py:32, 37, 168; fdfd.py:149, 227, 260)
ConfigErrors == {"AttributeError", "ValueError", "TypeError"}

\* C17: when the iterative solver of solve stops without reaching the
\* tolerance, the call fails with a non-convergence error, one that is not
\* an error of configuration or shape, and returns no field.
C17_NonConvergenceReported ==
    NotConverged => IsError(ret) /\ ret.type \notin ConfigErrors

\* what happens instead: the (x, info) pair is handed back, or its reshape
\* fails in the same way as a converged solve's
NonConvergenceIgnored ==
    NotConverged =>
        IF last_call.args.reshaped
        THEN ret = Error("AttributeError", "'tuple' object has no attribute 'ndim'")
        ELSE ret = Tuple(calls[2].x, calls[2].info)

\* the last call was a full or z-only solve with no solver_fn that is to be
\* done by a direct solver
DirectWithoutSolverFn ==
    /\ last_call.name = "solve"
    /\ last_call.args.solver_fn = "None"
    /\ SolveBranch(fdfd, last_call.args.size) # "mismatch"
    /\ \/ SolveBranch(fdfd, last_call.args.size) = "z"
       \/ ~(last_call.args.iterative = 0 - 1 /\ fdfd.ndim = 3)

\* C18: when MKL could not be loaded, a solve with no solver_fn still
\* completes its direct solve, with the general sparse solver.
C18_FallbackSolves ==
    (~mkl /\ DirectWithoutSolverFn) =>
        /\ ~IsError(ret)
        /\ Len(calls) = 1
        /\ calls[1].fn = "spsolve"

\* the one eigensolver call of the last wgm_solve was fn with the target
EigensolverCalled(fn, target) ==
    /\ Len(calls) = 1
    /\ calls[1].fn = fn
    /\ calls[1].target = target

\* the largest entry of the eps of the live grid
MaxEps == CHOOSE e \in {heap[fdfd.eps][i] : i \in 1..fdfd.n} :
              \A i \in 1..fdfd.n : heap[fdfd.eps][i] <= e

\* C19: wgm_solve takes its eigensolver and target from beta_guess: a float
\* g gives shift-invert about g^2, None shift-invert about
\* (k0 sqrt(max eps))^2, a (low, high) tuple the contour-integral solver on
\* [low^2, high^2]; any other type raises TypeError and nothing is solved.
C19_SolverFromBetaGuess ==
    (last_call.name = "wgm_solve" /\ fdfd.ndim <= 2) =>
        CASE last_call.args[2].type = "float" ->
                EigensolverCalled("eigs", [sigma |-> [sq |-> [beta |-> last_call.args[2].val[1]]]])
          [] last_call.args[2].type = "NoneType" ->
                EigensolverCalled("eigs", [sigma |-> [sq |-> [k0 |-> Frac(2, fdfd.wavelength),
                                                             sqrt_max_eps |-> MaxEps]]])
          [] last_call.args[2].type = "tuple" ->
                EigensolverCalled("feast_eigs",
                                  [erange |-> <<[sq |-> [beta |-> last_call.args[2].val[1]]],
                                                [sq |-> [beta |-> last_call.args[2].val[2]]]>>])
          [] OTHER -> ret.kind = "error" /\ ret.type = "TypeError" /\ calls = <<>>

\* the same with a float guess of 0.0 left out
C19_ExceptZeroGuess ==
    (last_call.name = "wgm_solve" /\ last_call.args[2] = [type |-> "float", val |-> <<Frac(0, 1)>>])
        \/ C19_SolverFromBetaGuess

\* C20: mat, matz and wgm are never stored: after any sequence of wavelength
\* assignments, each read gives the operator whose k0 is 2 pi / wavelength
\* for the wavelength the grid has now.
C20_OperatorsFollowWavelength ==
    (last_call.name \in {"mat", "matz", "wgm"} /\ ret.kind = "operator") =>
        ret.k0 = Frac(2, fdfd.wavelength)

\* an operator read at a wavelength of 2 on a grid whose eps_t had been read
\* before the eps was changed
C20_Witness ==
    /\ last_call.name \in {"mat", "matz", "wgm"}
    /\ ret.kind = "operator"
    /\ fdfd.wavelength = 2
    /\ ret.eps_t # CurrentEpsT

(***************************************************************************)
(* The documented values of iterative (fdfd.py:208)                        *)
(***************************************************************************)
\* C24: with no solver_fn, a 3n source is solved as the docstring of solve
\* says: iterative = 0 by a direct solve, iterative = 1 by preconditioned
\* GMRES, any value other than -1, 0 and 1 by preconditioned BiCGSTAB (the
\* default -1 follows the policy of C4).
C24_IterativeAsDocumented ==
    (SolvedWith("full") /\ last_call.args.solver_fn = "None") =>
        LET it == last_call.args.iterative IN
        /\ it = 0 => DirectSolveOf("mat")
        /\ it = 1 => IterativeSolveOfMat /\ calls[2].fn = "gmres"
        /\ it \notin {0 - 1, 0, 1} => IterativeSolveOfMat /\ calls[2].fn = "bicgstab"

\* what the code does with the values it documents: every value but -1 is a
\* direct solve, and -1 on a 3-d grid is always BiCGSTAB
IterativeOnlyByDefault ==
    (SolvedWith("full") /\ last_call.args.solver_fn = "None") =>
        IF last_call.args.iterative = 0 - 1 /\ fdfd.ndim = 3
        THEN IterativeSolveOfMat /\ calls[2].fn = "bicgstab"
        ELSE DirectSolveOf("mat")

(***************************************************************************)
(* The shape of the field Modes.h returns (device.py:72, grid.py:140)      *)
(***************************************************************************)
\* C22: for every mode index in range of a Modes object on a 1-d or 2-d
\* grid, h(i) returns an array of 3 field components, each of the grid's
\* shape (with or without the trailing axes of length 1 of shape3).
C22_HIsGridShaped ==
    (last_call.name = "h" /\ ~OutOfRangeAccess) =>
        LET g == solutions[last_call.args.obj].fdfd IN
        /\ ret.kind = "ndarray"
        /\ ret.shape \in {<<3>> \o g.shape, <<3>> \o shape3(g.shape)}

\* on a 2-d grid the mode has 3n entries and h(i) is grid-shaped; on a 1-d
\* grid the mode has n entries and the reshape raises
HShapedOn2dOnly ==
    (last_call.name = "h" /\ ~OutOfRangeAccess) =>
        LET g == solutions[last_call.args.obj].fdfd IN
        IF g.ndim = 2 THEN ret.kind = "ndarray" /\ ret.shape = <<3>> \o shape3(g.shape)
        ELSE ret.kind = "error" /\ ret.type = "ValueError"

(***************************************************************************)
(* The modulus of the normalisation factor (fdfd.py:268-269)               *)
(***************************************************************************)
\* C28: the phase/sign normalisation multiplies each mode by one factor of
\* unit modulus: every entry of a returned mode has the magnitude it had
\* before the normalisation, also for a mode whose first-cell entry is zero,
\* so that a non-zero eigenvector is never returned as the zero vector.
C28_NormalisationKeepsMagnitude ==
    ret.kind = "modes" =>
        \A k \in 1..Len(ret.modes) :
            LET col == HColumn(fdfd, calls[1].eigvals[ret.inds[k]], calls[1].eigvecs[ret.inds[k]])
                N2(z) == z[1] * z[1] + z[2] * z[2]
            IN  \A i \in 1..Len(col) : N2(ret.modes[k][i].num) = N2(col[i].num)

\* the magnitudes are kept but for the modes of a real grid whose first-cell
\* entry is zero: np.sign(0) = 0, and these come back as the zero vector
ZeroFirstCellZeroesRealMode ==
    ret.kind = "modes" =>
        \A k \in 1..Len(ret.modes) :
            LET v   == calls[1].eigvecs[ret.inds[k]]
                col == HColumn(fdfd, calls[1].eigvals[ret.inds[k]], v)
                N2(z) == z[1] * z[1] + z[2] * z[2]
            IN  IF fdfd.dtype = "float64" /\ v[1] = <<0, 0>>
                THEN \A i \in 1..Len(col) : ret.modes[k][i].num = <<0, 0>>
                ELSE \A i \in 1..Len(col) : N2(ret.modes[k][i].num) = N2(col[i].num)

(***************************************************************************)
(* The operator of the uniform periodic 1-d grid of 8 cells                *)
(***************************************************************************)
\* C25: on a 1-d grid of 8 cells with eps = 1 everywhere (as constructed: the
\* eps_t in use is the one of this eps), no PML and zero Bloch phase, mat is
\* -k0^2 times the identity plus the periodic discrete Laplacian term: on the
\* y and z blocks 2 / dx^2 on the diagonal and -1 / dx^2 on the two cyclic
\* neighbours, nothing on the x block and between blocks; every entry is real.
C25_UniformPeriodicMat ==
    (/\ last_call.name = "mat"
     /\ ret.kind = "spmatrix"
     /\ fdfd.shape = <<8>>
     /\ fdfd.bloch_phase = 0
     /\ fdfd.pml_shape = "None"
     /\ \A i \in 1..8 : heap[fdfd.eps][i] = 1
     /\ eps_t_cache = <<CurrentEpsT>>) =>
        LET k == fdfd.spacing[1][2] \div fdfd.spacing[1][1] IN
        \A r, c \in 1..24 :
            LET i  == (r - 1) \div 8
                j  == (c - 1) \div 8
                d  == ((r - 1) % 8) - ((c - 1) % 8)
                e  == ret.val[r][c]
            IN  /\ e.curl_curl[2] = 0
                /\ e.curl_curl[1] = IF i = j /\ i > 0
                                    THEN (IF d = 0 THEN 2 * k * k
                                          ELSE IF d % 8 \in {1, 7} THEN 0 - k * k ELSE 0)
                                    ELSE 0
                /\ IF r = c
                   THEN e.minus.k0 = Frac(2, fdfd.wavelength) /\ e.minus.eps[1] = e.minus.eps[2]
                   ELSE e.minus = None

\* mat was read on the uniform 8-cell grid with spacing 1/2, at a wavelength of 2
C25_Witness ==
    /\ last_call.name = "mat"
    /\ ret.kind = "spmatrix"
    /\ fdfd.shape = <<8>>
    /\ fdfd.bloch_phase = 0
    /\ \A i \in 1..8 : heap[fdfd.eps][i] = 1
    /\ eps_t_cache = <<CurrentEpsT>>
    /\ fdfd.spacing[1] = Frac(1, 2)
    /\ fdfd.wavelength = 2
    /\ ret.val[9][10].curl_curl[1] = 0 - 4

(***************************************************************************)
(* Grids with a PML (fdfd.py:94-103, 317-333): SpecPml. Axes are 1-based   *)
(* here. A stretch factor 1 + 1j * im is the record [re, im]; im stands    *)
(* for scale * d_pml ^ exp_scale / (2 * absorption_corr), with             *)
(* absorption_corr = k0 * pml_eps kept in `over` and d_pml a fraction.     *)
(* Positions along an axis are in units of half a cell.                    *)
(***************************************************************************)
\* FDFD.scpml(ax, exp_scale = 4, log_reflection = -16), fdfd.py:317-333:
\* (_scpml(pe), _scpml(ph)) for the cell centres pe and the cell edges ph
scpml(g, ax) ==
    LET n  == shape3(g.shape)[ax]
        t  == g.pml_shape[ax]
        dx == IF ax <= g.ndim THEN g.spacing[ax][1] ELSE 1
        p(i)  == 2 * i * dx
        pe(i) == p(i) + dx
        ph(i) == p(i)
        d_pml(d(_), i) ==
            IF i < t THEN Frac(d(t) - d(i), d(t) - p(0))
            ELSE IF i < n - t THEN Frac(0, 1)
            ELSE Frac(d(i) - d(n - t), p(n) - d(n - t))
        stretch(q) ==
            [re |-> 1,
             im |-> [scale |-> (4 + 1) * (0 - 16), d_pml |-> q, exp_scale |-> 4,
                     over |-> [k0 |-> k0(g), pml_eps |-> g.pml_eps]]]
    IN  IF n = 1
        THEN <<<<[re |-> 1, im |-> None]>>, <<[re |-> 1, im |-> None]>>>>
        ELSE <<[i \in 1..n |-> stretch(d_pml(pe, i - 1))],
               [i \in 1..n |-> stretch(d_pml(ph, i - 1))]>>

\* FDFD(shape, spacing = 1.0, wavelength = w, pml = t), fdfd.py:78-103: the
\* cell widths times the stretch factors of the wavelength given, stored
PmlFDFD(shape, t, w) ==
    LET g == [NewFDFD(shape, w, 1, 0, 1) EXCEPT
                 !.pml_shape = [ax \in 1..Len(shape) |-> t],
                 !.dtype = DtypeOf("pml", 0)] @@ [pml_eps |-> 1]
        widths(k) == [ax \in 1..3 |->
                        [i \in 1..shape3(shape)[ax] |->
                            [cell_size |-> IF ax <= g.ndim THEN g.spacing[ax] ELSE Frac(1, 1),
                             scpml |-> scpml(g, ax)[k][i]]]]
    IN  g @@ [dxes |-> <<widths(1), widths(2)>>]

\* SimGrid.deriv(back) on a grid with a PML, grid.py:184-214: for each axis
\* the tiled difference matrix d and the per-cell widths dx[ax].ravel() its
\* rows are divided by (grid.py:212), read from the stored _dxes
derivStretched(g, back) ==
    [ax \in 1..3 |->
        [d  |-> Tiled(shape3(g.shape), ax, AxisDeriv(One, shape3(g.shape)[ax], back)),
         dx |-> [c \in 1..g.n |->
                    g.dxes[IF back THEN 2 ELSE 1][ax][Coord(shape3(g.shape), c)[ax] + 1]]]]

\* a call of scpml(ax)
Scpml(ax) ==
    /\ Idle
    /\ ret = None
    /\ ret' = [kind |-> "tuple", val |-> scpml(fdfd, ax)]
    /\ last_call' = Call("scpml", <<ax>>)
    /\ calls' = <<>>
    /\ UNCHANGED <<fdfd, heap, eps_t_cache, solutions, built_from, sweep, method_cache, mkl>>

\* a read of the property df or db on a grid with a PML
ReadDerivPml(back) ==
    /\ Idle
    /\ ret = None
    /\ ret' = [kind |-> "list", val |-> derivStretched(fdfd, back)]
    /\ last_call' = Call(IF back THEN "db" ELSE "df", <<>>)
    /\ calls' = <<>>
    /\ UNCHANGED <<fdfd, heap, eps_t_cache, solutions, built_from, sweep, method_cache, mkl>>

\* the grids whose PML passes the checks of SimGrid.__init__
InitPml ==
    \E shape \in {<<10>>, <<11>>, <<12>>, <<10, 10>>}, t \in {4, 5}, w \in Wavelengths :
        /\ ~IsError(PmlCheck(shape, PmlShape(Len(shape), Py("int", t))))
        /\ fdfd = PmlFDFD(shape, t, w)
        /\ heap = [r \in {1} |-> Uniform(shape, 1)]
        /\ eps_t_cache = <<>>
        /\ ret = None
        /\ last_call = Call("None", <<>>)
        /\ calls = <<>>
        /\ solutions = <<>>
        /\ built_from = <<>>
        /\ sweep = None
        /\ method_cache = {}
        /\ mkl = TRUE

NextPml ==
    \/ \E ax \in 1..3 : Scpml(ax)
    \/ \E back \in BOOLEAN : ReadDerivPml(back)
    \/ \E w \in Wavelengths : SetWavelength(w)
    \/ Discard

SpecPml == InitPml /\ [][NextPml]_vars

\* the cell range of the PML on an axis of n cells with thickness t (0-based)
InPml(i, n, t) == i < t \/ i >= n - t

\* C21: on an axis of n cells with PML thickness t each of the two arrays
\* scpml returns has n entries, is exactly 1 at every interior cell
\* t <= i < n - t, and in the outer t cells of both the low and the high
\* boundary has a non-zero imaginary part whose magnitude grows toward the
\* boundary.
C21_StretchProfile ==
    (last_call.name = "scpml" /\ last_call.args[1] <= fdfd.ndim) =>
        LET n == fdfd.shape[last_call.args[1]]
            t == fdfd.pml_shape[last_call.args[1]]
        IN  \A k \in 1..2 :
            LET s == ret.val[k]
                d(i) == s[i + 1].im.d_pml
            IN  /\ Len(s) = n
                /\ \A i \in 0..(n - 1) :
                    /\ s[i + 1].re = 1
                    /\ s[i + 1].im.scale # 0
                    /\ ~InPml(i, n, t) => d(i)[1] = 0
                    /\ InPml(i, n, t) => d(i)[1] # 0
                /\ \A i \in 0..(t - 2) : d(i)[1] * d(i + 1)[2] > d(i + 1)[1] * d(i)[2]
                /\ \A i \in (n - t)..(n - 2) : d(i)[1] * d(i + 1)[2] < d(i + 1)[1] * d(i)[2]

\* the profile the code builds: as stated but for the cell n - t, the first
\* of the high boundary, which is not stretched
HighPmlStartsUnstretched ==
    (last_call.name = "scpml" /\ last_call.args[1] <= fdfd.ndim) =>
        LET n == fdfd.shape[last_call.args[1]]
            t == fdfd.pml_shape[last_call.args[1]]
        IN  \A k \in 1..2 :
            LET s == ret.val[k]
                d(i) == s[i + 1].im.d_pml
            IN  /\ Len(s) = n
                /\ \A i \in 0..(n - 1) : d(i)[1] # 0 <=> (i < t \/ i > n - t)
                /\ \A i \in 0..(t - 2) : d(i)[1] * d(i + 1)[2] > d(i + 1)[1] * d(i)[2]
                /\ \A i \in (n - t)..(n - 2) : d(i)[1] * d(i + 1)[2] < d(i + 1)[1] * d(i)[2]

\* C29: on a grid with a PML whose wavelength was reassigned, df and db (and
\* with them curl_curl and mat) are those of a grid freshly constructed with
\* that wavelength.
C29_PmlFollowsWavelength ==
    last_call.name \in {"df", "db"} =>
        ret.val = derivStretched(PmlFDFD(fdfd.shape, fdfd.pml_shape[1], fdfd.wavelength),
                                 last_call.name = "db")

\* the stretched cell widths are those of the construction for good
StretchFixedAtConstruction == [][fdfd'.dxes = fdfd.dxes]_vars

(***************************************************************************)
(* The mode source (fdfd.py:272-315): SpecSrc. The eigensolver answers as  *)
(* in a sweep. An entry h * polarity * np.sqrt(p) of the source is the     *)
(* record of its three factors.                                            *)
(***************************************************************************)
MaxModeIdx == 6     \* mode_idx given to src

\* fdfd.py:292-315, given the (beta, h) that wgm_solve returned as m
src(g, m, axis, mode_idx, power, return_beta) ==
    LET polarity == IF power > 0 THEN 1 ELSE IF power < 0 THEN 0 - 1 ELSE 0
        p == IF power < 0 THEN 0 - power ELSE power
        times(a) == [a EXCEPT !.data = [i \in 1..Len(a.data) |->
                        [h |-> a.data[i], polarity |-> polarity, sqrt |-> p]]]
    IN  IF g.pml_shape # "None" /\ g.ndim = 2
        THEN Error("ValueError", "The truth value of an array with more than one element is ambiguous")
        ELSE IF g.pml_shape # "None" /\ g.ndim = 1 /\ g.pml_shape[1] # 0
        THEN Error("NotImplementedError", "PML for 1d wgm source must be None.")
        ELSE IF mode_idx >= Len(m.modes)
        THEN Error("IndexError", "index is out of bounds for axis 0")
        ELSE LET h_m == NdArray(<<Len(m.modes[mode_idx + 1])>>, m.modes[mode_idx + 1])
                 s == IF g.ndim = 1 THEN times(h_m) ELSE times(reshape(g, h_m))
             IN  [kind |-> "tuple", val |-> <<m.betas, IF return_beta THEN s ELSE s>>]

\* src(axis, mode_idx, power, return_beta = ...), beta_guess left at None
Src(axis, mode_idx, power, return_beta) ==
    /\ Idle
    /\ ret = None
    /\ last_call' = Call("src", [axis |-> axis, mode_idx |-> mode_idx, power |-> power,
                                 return_beta |-> return_beta])
    /\ eps_t_cache' = CacheAfterWgmSolve(fdfd, heap, eps_t_cache, Py("NoneType", <<>>))
    /\ LET c == WgmSolveCall(fdfd, heap, eps_t_cache,
                             IF mode_idx + 1 < 6 THEN mode_idx + 1 ELSE 6, Py("NoneType", <<>>))
       IN  IF c.kind = "error"
           THEN /\ ret' = c
                /\ calls' = <<>>
           ELSE /\ calls' = <<[c EXCEPT !.kind = "returned"]>>
                /\ ret' = src(fdfd, SweepWgmPost(fdfd, c.k, c.A.size), axis, mode_idx, power,
                              return_beta)
    /\ UNCHANGED <<fdfd, heap, solutions, built_from, sweep, method_cache, mkl>>

InitSrc ==
    \E shape \in {<<8>>, <<2, 2>>, <<2, 1, 2>>}, bloch_phase \in {0, 1} :
        GridInit(shape, 1, 1, bloch_phase, 1)

NextSrc ==
    \/ \E axis \in {0, 1}, mode_idx \in 0..MaxModeIdx, power \in {1, 0 - 2},
          return_beta \in BOOLEAN : Src(axis, mode_idx, power, return_beta)
    \/ Discard

SpecSrc == InitSrc /\ [][NextSrc]_vars

\* C23: src returns the source alone when return_beta is False and the pair
\* (beta, source) only when return_beta is True.
C23_BetaOnlyOnRequest ==
    (last_call.name = "src" /\ ret.kind # "error") =>
        IF last_call.args.return_beta
        THEN ret.kind = "tuple" /\ ret.val[2].kind = "ndarray"
        ELSE ret.kind = "ndarray"

\* what the code returns: the pair, whatever return_beta is
SrcAlwaysReturnsPair ==
    (last_call.name = "src" /\ ret.kind # "error") =>
        /\ ret.kind = "tuple"
        /\ Len(ret.val[1]) = calls[1].k
        /\ ret.val[2].kind = "ndarray"
        /\ ret.val[2].shape = IF fdfd.ndim = 1 THEN fdfd.shape ELSE <<3>> \o shape3(fdfd.shape)

\* C27: for every mode_idx >= 0 src asks the mode solver for more modes than
\* mode_idx, so that the mode it indexes exists.
C27_RequestsEnoughModes ==
    (last_call.name = "src" /\ calls # <<>>) =>
        /\ calls[1].k > last_call.args.mode_idx
        /\ ~(ret.kind = "error" /\ ret.type = "IndexError")

\* what the code asks for: min(mode_idx + 1, 6) modes, and an IndexError from
\* mode_idx = 6 on
RequestsAtMostSix ==
    (last_call.name = "src" /\ calls # <<>>) =>
        /\ calls[1].k <= 6
        /\ calls[1].k > last_call.args.mode_idx <=> last_call.args.mode_idx < 6
        /\ (ret.kind = "error" /\ ret.type = "IndexError") <=> last_call.args.mode_idx >= 6

(***************************************************************************)
(* Grids made of a 2d component (grid.py:54-128): SpecComponent. A         *)
(* component is the record of its size, its bounds (x0, y0, x1, y1) and    *)
(* the cells (0-based) where its mask is 1. Lengths, permittivities and    *)
(* the spacing are integers.                                               *)
(***************************************************************************)
\* Grid.fill(zmax, eps), grid.py:96-106: eps[..., :int(zmax / spacing[-1])] = eps
fill(g, zmax, eps) ==
    [g EXCEPT !.eps.data =
        [i \in 1..g.n |->
            IF Coord(shape3(g.shape), i)[g.ndim] < zmax \div g.spacing.data[g.ndim]
            THEN eps ELSE g.eps.data[i]]]

\* Grid.add(component, eps, zmin, thickness), grid.py:108-128
add(g, component, eps, zmin, thickness) ==
    LET b == component.bounds
        zidx == <<zmin \div g.spacing.data[1], (zmin + thickness) \div g.spacing.data[2]>>
    IN  IF ~(b[1] >= 0 /\ b[2] >= 0 /\ b[3] <= g.spacing.data[1] * g.shape[1]
                                     /\ b[4] <= g.spacing.data[2] * g.shape[2])
        THEN Error("ValueError", "The pattern is out of bounds")
        ELSE [g EXCEPT !.eps.data =
                [i \in 1..g.n |->
                    LET c == Coord(shape3(g.shape), i) IN
                    IF /\ <<c[1], c[2]>> \in component.mask
                       /\ g.ndim = 2 \/ (zidx[1] <= c[3] /\ c[3] < zidx[2])
                    THEN eps ELSE g.eps.data[i]]]

\* Grid.from_2d_component(comp, comp_eps, sub_eps, spacing, boundary, comp_t,
\* comp_z, rib_t, sub_z, height), grid.py:54-90, spacing given as a float
from_2d_component(comp, comp_eps, sub_eps, spacing, boundary, comp_t, comp_z, rib_t, sub_z, height) ==
    LET x == comp.size[1] + 2 * boundary[1]
        y == comp.size[2] + 2 * boundary[2]
        z == IF comp_z.type = "NoneType" THEN sub_z ELSE comp_z.val
        sp == [i \in 1..(2 + IF comp_t > 0 THEN 1 ELSE 0) |-> spacing]
        shape == IF height > 0 THEN <<x \div spacing, y \div spacing, height \div spacing>>
                 ELSE <<x \div spacing, y \div spacing>>
        grid == Grid(shape, Py("tuple", sp), Py("float", 1))
    IN  IF IsError(grid) THEN grid
        ELSE add(fill(fill(grid, comp_eps, z + rib_t), sub_eps, sub_z), comp, comp_eps, z, comp_t)

\* grid = Grid.from_2d_component(...): the caller gets the grid or the exception
FromComponent(comp, comp_eps, sub_eps, spacing, comp_t, comp_z, rib_t, sub_z, height) ==
    /\ Idle
    /\ ret = None
    /\ ret' = from_2d_component(comp, comp_eps, sub_eps, spacing, <<1, 1>>, comp_t, comp_z,
                                rib_t, sub_z, height)
    /\ last_call' = Call("from_2d_component",
                         [comp |-> comp, comp_eps |-> comp_eps, sub_eps |-> sub_eps,
                          spacing |-> spacing, comp_t |-> comp_t, comp_z |-> comp_z,
                          rib_t |-> rib_t, sub_z |-> sub_z, height |-> height])
    /\ calls' = <<>>
    /\ UNCHANGED <<fdfd, heap, eps_t_cache, solutions, built_from, sweep, method_cache, mkl>>

NextComponent ==
    \/ \E comp \in {[size |-> <<2, 2>>, bounds |-> <<1, 1, 3, 3>>, mask |-> {<<1, 1>>}],
                    [size |-> <<2, 2>>, bounds |-> <<1, 1, 5, 3>>, mask |-> {<<1, 1>>}]},
          comp_eps \in {3, 4}, sub_eps \in {2}, spacing \in {1, 2}, comp_t \in {0, 1},
          comp_z \in {Py("NoneType", 0), Py("float", 2)}, rib_t \in {0, 1}, sub_z \in {0, 1}, height \in {0, 4} :
        FromComponent(comp, comp_eps, sub_eps, spacing, comp_t, comp_z, rib_t, sub_z, height)
    \/ Discard

SpecComponent == InitGrid /\ [][NextComponent]_vars

\* the height of cell k along the last axis of the grid returned
CellBelow(k, zmax) == k < zmax \div last_call.args.spacing

\* C26: from_2d_component fills the grid, along the last axis, with the
\* component permittivity in every cell below comp_z + rib_t and then with
\* the substrate permittivity in every cell below sub_z (the first argument
\* of fill is the height, the second the permittivity); the component is
\* then painted where its mask is 1.
C26_FillsByHeight ==
    (last_call.name = "from_2d_component" /\ ret.kind = "Grid") =>
        LET a == last_call.args
            z == IF a.comp_z.type = "NoneType" THEN a.sub_z ELSE a.comp_z.val
            painted(c) ==
                /\ <<c[1], c[2]>> \in a.comp.mask
                /\ ret.ndim = 2 \/ (z \div a.spacing <= c[3] /\ c[3] < (z + a.comp_t) \div a.spacing)
        IN  \A i \in 1..ret.n :
                LET c == Coord(shape3(ret.shape), i) IN
                ret.eps.data[i] =
                    IF painted(c) THEN a.comp_eps
                    ELSE IF CellBelow(c[ret.ndim], a.sub_z) THEN a.sub_eps
                    ELSE IF CellBelow(c[ret.ndim], z + a.rib_t) THEN a.comp_eps
                    ELSE 1

\* what the code fills: the heights are used as permittivities and the
\* permittivities as heights
FillsByPermittivity ==
    (last_call.name = "from_2d_component" /\ ret.kind = "Grid") =>
        LET a == last_call.args
            z == IF a.comp_z.type = "NoneType" THEN a.sub_z ELSE a.comp_z.val
            painted(c) ==
                /\ <<c[1], c[2]>> \in a.comp.mask
                /\ ret.ndim = 2 \/ (z \div a.spacing <= c[3] /\ c[3] < (z + a.comp_t) \div a.spacing)
        IN  \A i \in 1..ret.n :
                LET c == Coord(shape3(ret.shape), i) IN
                ret.eps.data[i] =
                    IF painted(c) THEN a.comp_eps
                    ELSE IF CellBelow(c[ret.ndim], a.sub_eps) THEN a.sub_z
                    ELSE IF CellBelow(c[ret.ndim], a.comp_eps) THEN z + a.rib_t
                    ELSE 1

(***************************************************************************)
(* The optimization loop (opt.py:76-181), one iteration per step: SpecOpt. *)
(* There is one problem, whose fdfd is the grid and whose metrics_fn       *)
(* returns the metric "power"; viz_interval is left at 0. The loop's       *)
(* locals are kept in `sweep`, the calls to xarray and to the pipes in     *)
(* `calls`. history holds the lists of the keys "power/fdfd" and           *)
(* "eps/fdfd" (an absent key is the empty list).                           *)
(***************************************************************************)
MaxIters == 4       \* num_iters given to opt_run

\* opt_run(opt_problem, init_params, num_iters, pbar, metric_interval = ...,
\* viz = ..., record_param_interval = ...) up to the loop, opt.py:111-147
OptRun(num_iters, metric_interval, record_param_interval, pbar, viz) ==
    /\ Idle
    /\ ret = None
    /\ sweep' = [kind |-> "opt_run", num_iters |-> num_iters, metric_interval |-> metric_interval,
                 record_param_interval |-> record_param_interval, pbar |-> pbar, viz |-> viz,
                 i |-> 0, costs |-> <<>>, history |-> [power |-> <<>>, eps |-> <<>>]]
    /\ last_call' = Call("opt_run", [num_iters |-> num_iters, metric_interval |-> metric_interval,
                                     record_param_interval |-> record_param_interval,
                                     pbar |-> pbar, viz |-> viz])
    /\ ret' = None
    /\ calls' = <<>>
    /\ UNCHANGED <<fdfd, heap, eps_t_cache, solutions, built_from, method_cache, mkl>>

\* one pass of the loop body, opt.py:149-179; an exception ends the run
OptStep ==
    /\ sweep # None
    /\ sweep.kind = "opt_run"
    /\ sweep.i < sweep.num_iters
    /\ LET i == sweep.i
           viz == sweep.viz
           \* opt.py:161
           due == sweep.metric_interval > 0 /\ i % sweep.metric_interval = 0
           emits == due /\ viz # None /\ viz.metrics_pipes
           \* opt.py:163-165
           power == IF emits THEN Append(sweep.history.power, [metric |-> "power", at |-> i])
                    ELSE sweep.history.power
           \* opt.py:168-177
           array == [fn |-> "xarray.DataArray", name |-> "powers",
                     data |-> <<power>>,
                     coords |-> [metric |-> <<"power">>, iteration |-> [j \in 1..(i + 1) |-> j - 1]]]
           \* opt.py:178-180
           eps == IF sweep.record_param_interval > 0 /\ i % sweep.record_param_interval = 0
                  THEN Append(sweep.history.eps, <<i, fdfd.eps>>) ELSE sweep.history.eps
           costs == Append(sweep.costs, [cost |-> i])
           Raise(e, log) == /\ ret' = e
                            /\ sweep' = None
                            /\ calls' = log
       IN  IF due /\ viz = None
           THEN Raise(Error("AttributeError", "'NoneType' object has no attribute 'metrics_pipes'"),
                      calls)
           ELSE IF emits /\ Len(power) # i + 1
           THEN Raise(Error("ValueError", "conflicting sizes for dimension 'iteration'"),
                      Append(calls, array))
           ELSE IF ~sweep.pbar
           THEN Raise(Error("AttributeError", "'range' object has no attribute 'set_description'"),
                      IF emits THEN calls \o <<array, [fn |-> "send", arg |-> array]>> ELSE calls)
           ELSE IF viz = None
           THEN Raise(Error("AttributeError", "'NoneType' object has no attribute 'costs_pipe'"),
                      calls)
           ELSE /\ ret' = None
                /\ sweep' = [sweep EXCEPT !.i = i + 1, !.costs = costs,
                                          !.history = [power |-> power, eps |-> eps]]
                /\ calls' = (IF emits THEN calls \o <<array, [fn |-> "send", arg |-> array]>>
                             ELSE calls) \o <<[fn |-> "send", arg |-> costs]>>
    /\ UNCHANGED <<fdfd, heap, eps_t_cache, last_call, solutions, built_from, method_cache, mkl>>

\* after the loop, opt.py:180-181: _update_eps rebinds fdfd.eps to the array
\* transform_fn gave, and the costs and the history are returned
OptReturn(e) ==
    /\ sweep # None
    /\ sweep.kind = "opt_run"
    /\ sweep.i = sweep.num_iters
    /\ LET x == AssignEps(fdfd, heap, solutions, Uniform(fdfd.shape, e))
       IN  fdfd' = x.fdfd /\ heap' = x.heap
    /\ sweep' = None
    /\ ret' = [kind |-> "tuple", costs |-> sweep.costs, history |-> sweep.history]
    /\ UNCHANGED <<eps_t_cache, last_call, calls, solutions, built_from, method_cache, mkl>>

NextOpt ==
    \/ \E num_iters \in 1..MaxIters, metric_interval \in 0..3, record_param_interval \in {0, 2},
          pbar \in BOOLEAN,
          viz \in {None, [kind |-> "OptViz", metrics_pipes |-> FALSE],
                   [kind |-> "OptViz", metrics_pipes |-> TRUE]} :
        OptRun(num_iters, metric_interval, record_param_interval, pbar, viz)
    \/ OptStep
    \/ \E e \in EpsValues : OptReturn(e)
    \/ Discard

SpecOpt == InitGrid /\ [][NextOpt]_vars

\* C30: in opt_run, for every metric_interval > 0 and every iteration at
\* which metrics are emitted, the history of each metric and the 'iteration'
\* coordinate given with it have the same length, so every metrics array is
\* well-formed after any number of iterations.
C30_HistoryMatchesIterations ==
    last_call.name = "opt_run" =>
        \A k \in 1..Len(calls) :
            calls[k].fn = "xarray.DataArray" =>
                \A m \in 1..Len(calls[k].data) :
                    Len(calls[k].data[m]) = Len(calls[k].coords.iteration)

\* what the code keeps: one history entry per emission, i + 1 iteration
\* labels, equal on the first emission and for metric_interval = 1 only
HistoryCountsEmissions ==
    last_call.name = "opt_run" =>
        \A k \in 1..Len(calls) :
            calls[k].fn = "xarray.DataArray" =>
                LET i == Len(calls[k].coords.iteration) - 1 IN
                /\ i % last_call.args.metric_interval = 0
                /\ Len(calls[k].data[1]) = (i \div last_call.args.metric_interval) + 1
                /\ (Len(calls[k].data[1]) # i + 1) =>
                       /\ k = Len(calls)
                       /\ ret.kind = "error" /\ ret.type = "ValueError"

====
